---- MODULE Spec2Model ----
(***************************************************************************)
(* Finance Manager.  Backend: the in-memory expense and spending-limit     *)
(* repositories, the use cases over them and the HTTP handlers that the    *)
(* AppModule wires to them.  Frontend: the ExpenseForm component.          *)
(***************************************************************************)
EXTENDS Integers, Sequences, FiniteSets, TLC

VARIABLES
    expenses,     \* InMemoryExpenseRepository.expenses (the one instance behind EXPENSE_REPOSITORY)
    limits,       \* InMemorySpendingLimitRepository.limits of the instance behind SPENDING_LIMIT_REPOSITORY
    classLimits,  \* .limits of the second instance, the class provider InMemorySpendingLimitRepository
    uuidCount,    \* number of randomUUID() calls made so far by each repository
    tz,           \* offset of the server's local time from UTC, in hours
    response,     \* outcome of the last call: what it returned or threw
    ledger,       \* history: one entry per expense ever created, in creation order
    updateCount,  \* history: number of update calls made so far
    suspended,    \* the handlers that wait at an await, in the order they began to wait
    formState,    \* ExpenseForm: the values of its five useState hooks
    dom,          \* ExpenseForm: what its last render put on the page
    today,        \* the UTC calendar day of the browser's clock, as YYYY-MM-DD
    app,          \* App: the values of its useState hooks expenses, summary and the two loading flags
    requests,     \* the fetch calls of the browser that have not settled, in the order they were made
    issued,       \* history: number of fetch calls made so far
    shownFrom     \* history: the fetch calls whose answers App shows, and the last reloads answered

\* the state of the frontend
formVars == <<formState, dom, today>>
appVars == <<app, requests, issued, shownFrom>>
frontend == <<formVars, appVars>>

vars == <<expenses, limits, classLimits, uuidCount, tz, response, ledger, updateCount, suspended,
          formState, dom, today, app, requests, issued, shownFrom>>

(***************************************************************************)
(* Bounds of the model.                                                    *)
(***************************************************************************)
MaxCreates == 2     \* create calls made on the repository directly
MaxUpdates == 1     \* update calls made on the repository directly
MaxPosts == 2       \* POST /expenses requests
MaxLimits == 2      \* POST /spending-limits requests
MaxRecords == 3     \* create calls made where the order of the records is followed
MaxSuspended == 1   \* summary requests waiting at an await at one time
MaxWriters == 2     \* callers of create, update and delete waiting at their await at one time
MaxSubmissions == 2 \* handleSubmit calls of the form waiting at their await at one time
MaxFetches == 5     \* fetch calls made by the browser

(***************************************************************************)
(* JavaScript numbers.  A finite number is the exact rational num/den in   *)
(* lowest terms (den > 0); NaN and the two infinities are values of their  *)
(* own, as is null for the nullable number fields of the summary.          *)
(***************************************************************************)
Abs(n) == IF n < 0 THEN -n ELSE n

RECURSIVE GCD(_, _)
GCD(a, b) == IF b = 0 THEN a ELSE GCD(b, a % b)

Rat(n, d) ==
    LET g == GCD(Abs(n), Abs(d))
        s == IF d < 0 THEN -1 ELSE 1
    IN  [kind |-> "fin", num |-> (s * n) \div g, den |-> (s * d) \div g]

Num(n) == [kind |-> "fin", num |-> n, den |-> 1]
NaN == [kind |-> "nan", num |-> 0, den |-> 1]
PosInfinity == [kind |-> "inf", num |-> 1, den |-> 1]
NegInfinity == [kind |-> "inf", num |-> -1, den |-> 1]
null == [kind |-> "null", num |-> 0, den |-> 1]

Sign(a) == IF a.num > 0 THEN 1 ELSE IF a.num < 0 THEN -1 ELSE 0
Infinity(s) == IF s > 0 THEN PosInfinity ELSE NegInfinity

JsNeg(a) ==
    IF a.kind = "nan" THEN NaN ELSE [a EXCEPT !.num = -a.num]

JsAdd(a, b) ==
    CASE a.kind = "nan" \/ b.kind = "nan" -> NaN
      [] a.kind = "inf" /\ b.kind = "inf" -> IF a.num = b.num THEN a ELSE NaN
      [] a.kind = "inf" -> a
      [] b.kind = "inf" -> b
      [] OTHER -> Rat(a.num * b.den + b.num * a.den, a.den * b.den)

JsSub(a, b) == JsAdd(a, JsNeg(b))

JsMul(a, b) ==
    CASE a.kind = "nan" \/ b.kind = "nan" -> NaN
      [] a.kind = "inf" \/ b.kind = "inf" ->
            IF Sign(a) * Sign(b) = 0 THEN NaN ELSE Infinity(Sign(a) * Sign(b))
      [] OTHER -> Rat(a.num * b.num, a.den * b.den)

JsDiv(a, b) ==
    CASE a.kind = "nan" \/ b.kind = "nan" -> NaN
      [] a.kind = "inf" /\ b.kind = "inf" -> NaN
      [] a.kind = "inf" -> Infinity(IF Sign(b) < 0 THEN -Sign(a) ELSE Sign(a))
      [] b.kind = "inf" -> Num(0)
      [] b.num = 0 -> IF a.num = 0 THEN NaN ELSE Infinity(Sign(a))
      [] OTHER -> Rat(a.num * b.den, a.den * b.num)

\* a === b on numbers: NaN equals nothing
JsStrictEquals(a, b) == a.kind # "nan" /\ b.kind # "nan" /\ a = b

(***************************************************************************)
(* Dates.  A Date is an instant, counted in hours from 2024-01-01T00:00Z,  *)
(* or the Invalid Date; getMonth and getFullYear read it in the server's   *)
(* local time and give NaN for the Invalid Date.                           *)
(***************************************************************************)
IsLeap(y) == (y % 4 = 0 /\ y % 100 # 0) \/ y % 400 = 0

DaysInMonth(y, m0) ==
    CASE m0 = 1 -> IF IsLeap(y) THEN 29 ELSE 28
      [] m0 \in {3, 5, 8, 10} -> 30
      [] OTHER -> 31

RECURSIVE CivilFromDays(_, _, _)
CivilFromDays(n, y, m0) ==
    IF n < DaysInMonth(y, m0)
    THEN [year |-> y, month |-> m0, day |-> n + 1]
    ELSE CivilFromDays(n - DaysInMonth(y, m0),
                       IF m0 = 11 THEN y + 1 ELSE y,
                       (m0 + 1) % 12)

RECURSIVE DaysBefore(_, _)
DaysBefore(y, m0) ==
    IF y = 2024 /\ m0 = 0 THEN 0
    ELSE LET py == IF m0 = 0 THEN y - 1 ELSE y
             pm == IF m0 = 0 THEN 11 ELSE m0 - 1
         IN  DaysBefore(py, pm) + DaysInMonth(py, pm)

InvalidDate == [valid |-> FALSE, t |-> 0]

\* new Date(Date.UTC(y, m1 - 1, d, h))
DateUTC(y, m1, d, h) ==
    [valid |-> TRUE, t |-> (DaysBefore(y, m1 - 1) + (d - 1)) * 24 + h]

\* the calendar date of each day from 2024-01-01 to early 2026
CivilOfDay == [n \in 0..800 |-> CivilFromDays(n, 2024, 0)]

LocalCivil(date) == CivilOfDay[(date.t + tz) \div 24]
getMonth(date) == IF date.valid THEN Num(LocalCivil(date).month) ELSE NaN
getFullYear(date) == IF date.valid THEN Num(LocalCivil(date).year) ELSE NaN

\* A date string on the wire: form "date" is YYYY-MM-DD, "utc" is
\* YYYY-MM-DDTHH:00:00.000Z, "local" is YYYY-MM-DDTHH:00:00 with no offset,
\* "invalid" is a string that is no date.
DateString(form, y, m1, d, h) == [form |-> form, y |-> y, m |-> m1, d |-> d, h |-> h]

\* new Date(string)
newDate(s) ==
    CASE s.form = "date" -> DateUTC(s.y, s.m, s.d, 0)
      [] s.form = "utc" -> DateUTC(s.y, s.m, s.d, s.h)
      [] s.form = "local" -> [DateUTC(s.y, s.m, s.d, s.h) EXCEPT !.t = @ - tz]
      [] OTHER -> InvalidDate

(***************************************************************************)
(* Optional values: <<>> is undefined/null, <<v>> is the value v.          *)
(***************************************************************************)
None == <<>>
Some(v) == <<v>>
\* a ?? b
Coalesce(a, b) == IF a = None THEN b ELSE a[1]

(***************************************************************************)
(* Query parameters.  A parameter is absent (None) or a string, held as the *)
(* sequence of its characters.                                             *)
(***************************************************************************)
DigitChars == <<"0", "1", "2", "3", "4", "5", "6", "7", "8", "9">>
IsDigit(c) == \E i \in 1..Len(DigitChars) : DigitChars[i] = c
DigitValue(c) == (CHOOSE i \in 1..Len(DigitChars) : DigitChars[i] = c) - 1

\* the text after an optional sign
Unsigned(text) ==
    IF text # <<>> /\ text[1] \in {"-", "+"} THEN Tail(text) ELSE text

\* the length of the longest prefix of text made of digits
RECURSIVE LeadingDigits(_)
LeadingDigits(text) ==
    IF text # <<>> /\ IsDigit(text[1]) THEN 1 + LeadingDigits(Tail(text)) ELSE 0

\* the value of a sequence of digits read in base 10
RECURSIVE DecimalValue(_)
DecimalValue(digits) ==
    IF digits = <<>> THEN 0
    ELSE 10 * DecimalValue(SubSeq(digits, 1, Len(digits) - 1)) + DigitValue(digits[Len(digits)])

\* parseInt(text, 10): the leading integer of text, NaN when there is none
parseInt(text) ==
    LET body == Unsigned(text)
        n == LeadingDigits(body)
        magnitude == DecimalValue(SubSeq(body, 1, n))
    IN  IF n = 0 THEN NaN
        ELSE IF text[1] = "-" THEN Num(-magnitude) ELSE Num(magnitude)

\* 10 to the power n
RECURSIVE PowerOfTen(_)
PowerOfTen(n) == IF n = 0 THEN 1 ELSE 10 * PowerOfTen(n - 1)

\* parseFloat(text) of a text without exponent: the leading decimal number of
\* text, NaN when there is none
parseFloat(text) ==
    LET body == Unsigned(text)
        n == LeadingDigits(body)
        after == SubSeq(body, n + 1, Len(body))
        m == IF after # <<>> /\ after[1] = "." THEN LeadingDigits(Tail(after)) ELSE 0
        whole == DecimalValue(SubSeq(body, 1, n))
        fraction == DecimalValue(SubSeq(after, 2, m + 1))
        magnitude == whole * PowerOfTen(m) + fraction
    IN  IF n = 0 /\ m = 0 THEN NaN
        ELSE IF text[1] = "-" THEN Rat(-magnitude, PowerOfTen(m)) ELSE Rat(magnitude, PowerOfTen(m))

\* a pipe that lets every string through to parseInt
isNumericAnyString(value) == value # None

\* ParseIntPipe.isNumeric: a string that matches /^-?\d+$/
isNumeric(value) ==
    /\ value # None
    /\ LET text == value[1]
           body == IF text # <<>> /\ text[1] = "-" THEN Tail(text) ELSE text
       IN  body # <<>> /\ LeadingDigits(body) = Len(body)

\* randomUUID(): the n-th call made by a repository returns a string that no
\* earlier call, by either repository, returned
randomUUID(repository, n) == repository \o "-" \o ToString(n)

(***************************************************************************)
(* Entities.                                                               *)
(***************************************************************************)
Expense(id, amount, description, category, date, userId) ==
    [id |-> id, amount |-> amount, description |-> description,
     category |-> category, date |-> date, userId |-> userId]

SpendingLimit(id, userId, monthlyLimit, month, year) ==
    [id |-> id, userId |-> userId, monthlyLimit |-> monthlyLimit,
     month |-> month, year |-> year]

(***************************************************************************)
(* InMemoryExpenseRepository, as functions of the array it holds.          *)
(***************************************************************************)
\* a findAll that forgets its filter
findAllUnfiltered(es, userId) == es

findAll(es, userId) ==
    SelectSeq(es, LAMBDA expense : expense.userId = userId)

\* Array.prototype.findIndex, 1-based; 0 stands for -1
findIndex(es, id) ==
    IF \E i \in 1..Len(es) : es[i].id = id
    THEN CHOOSE i \in 1..Len(es) :
            es[i].id = id /\ \A j \in 1..(i - 1) : es[j].id # id
    ELSE 0

findById(es, id) ==
    IF findIndex(es, id) = 0 THEN None ELSE Some(es[findIndex(es, id)])

\* the filter with the month read zero-indexed
monthFilterZeroIndexed(expense, userId, month, year) ==
    /\ expense.userId = userId
    /\ JsStrictEquals(getMonth(expense.date), month)
    /\ JsStrictEquals(getFullYear(expense.date), year)

monthFilter(expense, userId, month, year) ==
    /\ expense.userId = userId
    /\ JsStrictEquals(JsAdd(getMonth(expense.date), Num(1)), month)
    /\ JsStrictEquals(getFullYear(expense.date), year)

findByMonth(es, userId, month, year) ==
    SelectSeq(es, LAMBDA expense : monthFilter(expense, userId, month, year))

\* the Expense that create builds around the generated id
createdExpense(id, dto) ==
    Expense(id, dto.amount, dto.description, dto.category, dto.date, dto.userId)

\* a create that replaces the array by one holding the new record alone
createOverwrite(es, id, dto) == <<createdExpense(id, dto)>>

\* a create that puts the new record in front
createUnshift(es, id, dto) == <<createdExpense(id, dto)>> \o es

\* the array after create's push
createPush(es, id, dto) == Append(es, createdExpense(id, dto))

\* an update that lets the partial's id through
updatedExpenseTakingId(es, index, id, partial) ==
    Expense(Coalesce(partial.id, id),
            Coalesce(partial.amount, es[index].amount),
            Coalesce(partial.description, es[index].description),
            Coalesce(partial.category, es[index].category),
            Coalesce(partial.date, es[index].date),
            Coalesce(partial.userId, es[index].userId))

\* an update that joins amount and description with || : 0, NaN and the empty
\* string give way to the old value
updatedExpenseOr(es, index, id, partial) ==
    Expense(id,
            IF partial.amount = None \/ partial.amount[1].kind = "nan" \/ partial.amount[1].num = 0
                THEN es[index].amount ELSE partial.amount[1],
            IF partial.description = None \/ partial.description[1] = ""
                THEN es[index].description ELSE partial.description[1],
            Coalesce(partial.category, es[index].category),
            Coalesce(partial.date, es[index].date),
            Coalesce(partial.userId, es[index].userId))

\* the Expense that update builds for the record at index
updatedExpense(es, index, id, partial) ==
    Expense(id,
            Coalesce(partial.amount, es[index].amount),
            Coalesce(partial.description, es[index].description),
            Coalesce(partial.category, es[index].category),
            Coalesce(partial.date, es[index].date),
            Coalesce(partial.userId, es[index].userId))

\* an update that removes the record and pushes its replacement
updateMoveToEnd(es, index, id, partial) ==
    Append(SubSeq(es, 1, index - 1) \o SubSeq(es, index + 1, Len(es)),
           updatedExpense(es, index, id, partial))

\* the array after update's assignment to this.expenses[index]
updateAssign(es, index, id, partial) ==
    [es EXCEPT ![index] = updatedExpense(es, index, id, partial)]

\* a delete by splice(findIndex(...), 1): index -1 removes the last element
deleteSplice(es, id) ==
    IF findIndex(es, id) = 0
    THEN SubSeq(es, 1, Len(es) - 1)
    ELSE SubSeq(es, 1, findIndex(es, id) - 1) \o SubSeq(es, findIndex(es, id) + 1, Len(es))

\* the array after delete's filter
deleteFilter(es, id) ==
    SelectSeq(es, LAMBDA expense : expense.id # id)

(***************************************************************************)
(* InMemorySpendingLimitRepository, as functions of the array it holds.    *)
(***************************************************************************)
\* a match on the user alone
limitMatchesUserOnly(limit, userId, month, year) ==
    limit.userId = userId

\* a match on the month and year alone
limitMatchesAnyUser(limit, userId, month, year) ==
    /\ JsStrictEquals(limit.month, month)
    /\ JsStrictEquals(limit.year, year)

limitMatches(limit, userId, month, year) ==
    /\ limit.userId = userId
    /\ JsStrictEquals(limit.month, month)
    /\ JsStrictEquals(limit.year, year)

\* a lookup that answers the last matching limit
findLastByUserAndMonth(ls, userId, month, year) ==
    IF \E i \in 1..Len(ls) : limitMatches(ls[i], userId, month, year)
    THEN Some(ls[CHOOSE i \in 1..Len(ls) :
                    /\ limitMatches(ls[i], userId, month, year)
                    /\ \A j \in (i + 1)..Len(ls) : ~limitMatches(ls[j], userId, month, year)])
    ELSE None

\* Array.prototype.find(...) || null: the first matching limit, or none
findByUserAndMonth(ls, userId, month, year) ==
    IF \E i \in 1..Len(ls) : limitMatches(ls[i], userId, month, year)
    THEN Some(ls[CHOOSE i \in 1..Len(ls) :
                    /\ limitMatches(ls[i], userId, month, year)
                    /\ \A j \in 1..(i - 1) : ~limitMatches(ls[j], userId, month, year)])
    ELSE None

createdLimit(id, dto) ==
    SpendingLimit(id, dto.userId, dto.monthlyLimit, dto.month, dto.year)

limitPush(ls, id, dto) == Append(ls, createdLimit(id, dto))

\* the SpendingLimit that update builds for the record at index
updatedLimit(ls, index, id, partial) ==
    SpendingLimit(id,
                  Coalesce(partial.userId, ls[index].userId),
                  Coalesce(partial.monthlyLimit, ls[index].monthlyLimit),
                  Coalesce(partial.month, ls[index].month),
                  Coalesce(partial.year, ls[index].year))

\* the array after update's assignment to this.limits[index]
limitUpdateAssign(ls, index, id, partial) ==
    [ls EXCEPT ![index] = updatedLimit(ls, index, id, partial)]

\* the array after delete's filter
limitDeleteFilter(ls, id) ==
    SelectSeq(ls, LAMBDA limit : limit.id # id)

(***************************************************************************)
(* GetSpendingSummaryUseCase.execute over the two repositories.            *)
(***************************************************************************)
\* expenses.reduce((sum, expense) => sum + expense.amount, 0)
\* a reducer that forgets the accumulator
RECURSIVE reduceLast(_, _)
reduceLast(es, sum) ==
    IF es = <<>> THEN sum ELSE reduceLast(Tail(es), Head(es).amount)

RECURSIVE reduceSum(_, _)
reduceSum(es, sum) ==
    IF es = <<>> THEN sum ELSE reduceSum(Tail(es), JsAdd(sum, Head(es).amount))

totalSpentOf(es, userId, month, year) ==
    reduceSum(findByMonth(es, userId, month, year), Num(0))

summaryWithoutLimit(totalSpent) ==
    [totalSpent |-> totalSpent, spendingLimit |-> null,
     remainingBudget |-> null, percentageUsed |-> null]

\* a summary that clamps the budget at 0 and caps the percentage at 100
summaryWithLimitClamped(totalSpent, limit) ==
    LET remaining == JsSub(limit.monthlyLimit, totalSpent)
        percentage == JsMul(JsDiv(totalSpent, limit.monthlyLimit), Num(100))
    IN  [totalSpent |-> totalSpent,
         spendingLimit |-> limit.monthlyLimit,
         remainingBudget |-> IF remaining.num < 0 THEN Num(0) ELSE remaining,
         percentageUsed |-> IF percentage.num > 100 * percentage.den THEN Num(100) ELSE percentage]

\* a summary that answers 0 percent for a limit of 0
summaryWithLimitGuarded(totalSpent, limit) ==
    [totalSpent |-> totalSpent,
     spendingLimit |-> limit.monthlyLimit,
     remainingBudget |-> JsSub(limit.monthlyLimit, totalSpent),
     percentageUsed |-> IF limit.monthlyLimit = Num(0) THEN Num(0)
                        ELSE JsMul(JsDiv(totalSpent, limit.monthlyLimit), Num(100))]

summaryWithLimit(totalSpent, limit) ==
    [totalSpent |-> totalSpent,
     spendingLimit |-> limit.monthlyLimit,
     remainingBudget |-> JsSub(limit.monthlyLimit, totalSpent),
     percentageUsed |-> JsMul(JsDiv(totalSpent, limit.monthlyLimit), Num(100))]

getSpendingSummary(es, ls, userId, month, year) ==
    LET totalSpent == totalSpentOf(es, userId, month, year)
        limit == findByUserAndMonth(ls, userId, month, year)
    IN  IF limit = None
        THEN summaryWithoutLimit(totalSpent)
        ELSE summaryWithLimit(totalSpent, limit[1])

(***************************************************************************)
(* The repository the AppModule hands to each consumer.  The use cases and *)
(* SpendingLimitController ask for the SPENDING_LIMIT_REPOSITORY token;    *)
(* the class provider InMemorySpendingLimitRepository is a second instance *)
(* that nothing asks for.                                                  *)
(***************************************************************************)
controllerRepositoryByClass == "class"   \* a controller given the class provider's instance
controllerRepository == "token"   \* SpendingLimitController: @Inject(SPENDING_LIMIT_REPOSITORY)
useCaseRepository == "token"      \* GetSpendingSummaryUseCase: @Inject(SPENDING_LIMIT_REPOSITORY)

\* the array held by the instance a consumer was given
limitsOf(injected) == IF injected = "token" THEN limits ELSE classLimits

(***************************************************************************)
(* Inputs.                                                                 *)
(***************************************************************************)
Users == {"user-123", "user-456"}

\* bodies of POST /expenses
PostBodies ==
    { [amount |-> Num(300), description |-> "Expense A", category |-> "Food",
       date |-> DateString("date", 2025, 1, 15, 0), userId |-> "user-123"],
      [amount |-> Num(100), description |-> "Expense B", category |-> "Transport",
       date |-> DateString("utc", 2025, 1, 20, 12), userId |-> "user-123"],
      [amount |-> Num(300), description |-> "Groceries", category |-> "Food",
       date |-> DateString("utc", 2025, 2, 3, 12), userId |-> "user-123"],
      [amount |-> Num(100), description |-> "Groceries", category |-> "Food",
       date |-> DateString("date", 2025, 1, 15, 0), userId |-> "user-456"],
      [amount |-> Num(-50), description |-> "Refund", category |-> "Food",
       date |-> DateString("date", 2025, 1, 15, 0), userId |-> "user-123"] }

\* arguments of the repository's create, update and delete
OtherDate == DateUTC(2024, 1, 20, 12)

CreateDtos ==
    { [amount |-> Num(300), description |-> "Expense A", category |-> "Food",
       date |-> DateUTC(2025, 1, 15, 12), userId |-> "user-123"],
      [amount |-> Num(100), description |-> "Expense B", category |-> "Transport",
       date |-> DateUTC(2025, 2, 3, 12), userId |-> "user-123"],
      [amount |-> Num(50), description |-> "Groceries", category |-> "Food",
       date |-> DateUTC(2025, 1, 15, 12), userId |-> "user-456"] }

NoFields ==
    [id |-> None, amount |-> None, description |-> None,
     category |-> None, date |-> None, userId |-> None]

UpdatePartials ==
    { NoFields,
      [NoFields EXCEPT !.amount = Some(Num(75))],
      [NoFields EXCEPT !.userId = Some("user-456")],
      [NoFields EXCEPT !.id = Some(randomUUID("expense", 1)), !.description = Some("Lunch"),
                       !.date = Some(OtherDate)],
      [NoFields EXCEPT !.id = Some(""), !.category = Some("Transport")] }

ExpenseIds == {randomUUID("expense", n) : n \in 1..MaxCreates} \cup {"no-such-id"}

\* bodies of POST /spending-limits
LimitDtos ==
    { [userId |-> "user-123", monthlyLimit |-> Num(1000), month |-> Num(1), year |-> Num(2025)],
      [userId |-> "user-123", monthlyLimit |-> Num(500), month |-> Num(1), year |-> Num(2025)],
      [userId |-> "user-456", monthlyLimit |-> Num(500), month |-> Num(2), year |-> Num(2025)] }

\* month and year of a query
Months == {Num(1), Num(2)}
Years == {Num(2025)}

\* month and year of a query, as they stand in the URL
QueryMonths == {Some(<<"1">>), Some(<<"2">>), Some(<<"a", "b", "c">>), Some(<<"1", ".", "5">>), None}
QueryYears == {Some(<<"2", "0", "2", "5">>), Some(<<"2", "0", "2", "5", "x">>)}

\* what GET /expenses/summary answers in the current state
SummaryFor(userId, month, year) ==
    getSpendingSummary(expenses, limitsOf(useCaseRepository), userId, month, year)

\* The outcome of a call.  A body is always a record: an entity, a summary,
\* [items |-> ...] for an array, [found |-> ...] for an entity or null,
\* [void |-> TRUE] for no value, [message |-> ...] for an Error.
Returned(op, body) == [op |-> op, status |-> "returned", body |-> body]
Thrown(op, message) == [op |-> op, status |-> "thrown", body |-> [message |-> message]]
\* the BadRequestException of a pipe, answered as HTTP 400
BadRequest(op) ==
    [op |-> op, status |-> "thrown",
     body |-> [statusCode |-> 400, message |-> "Validation failed (numeric string is expected)"]]

(***************************************************************************)
(* History of the expense store.  An entry records who its expense was     *)
(* created for, who holds it now and whether it was deleted, and beside    *)
(* that the expense as it stands in the twin run: the run that makes the   *)
(* same calls but for the creates for, and the deletes from, users other   *)
(* than the one this expense was created for.                              *)
(***************************************************************************)
ledgerIndex(id) ==
    IF \E i \in 1..Len(ledger) : ledger[i].id = id
    THEN CHOOSE i \in 1..Len(ledger) : ledger[i].id = id
    ELSE 0

ledgerCreated(id, dto) ==
    Append(ledger, [id |-> id, createdFor |-> dto.userId,
                    owner |-> dto.userId, deleted |-> FALSE,
                    twin |-> Some(createdExpense(id, dto))])

\* the twin run's update finds the expense whenever the twin run stores it
ledgerUpdated(id, partial) ==
    [i \in 1..Len(ledger) |->
        IF ledger[i].id = id
        THEN [ledger[i] EXCEPT
                !.owner = IF ledger[i].deleted THEN @ ELSE Coalesce(partial.userId, @),
                !.twin = IF @ = None THEN None
                         ELSE Some(updatedExpense(@, 1, id, partial))]
        ELSE ledger[i]]

\* the twin run leaves out a delete that takes the expense from another user
ledgerDeleted(id) ==
    [i \in 1..Len(ledger) |->
        IF ledger[i].id = id
        THEN [ledger[i] EXCEPT
                !.deleted = TRUE,
                !.twin = IF ~ledger[i].deleted /\ ledger[i].owner # ledger[i].createdFor
                         THEN @ ELSE None]
        ELSE ledger[i]]

(***************************************************************************)
(* ExpenseForm.  The amount is held as the sequence of its characters, so  *)
(* that parseFloat reads it; the other fields are strings.                 *)
(***************************************************************************)
\* the userId prop that App passes
FormUserId == "user-123"

\* the calendar days the browser's clock goes through
FirstDay == "2025-01-15"
NextDay == "2025-01-16"

\* what the user can put in the inputs
FormAmounts == {<<>>, <<"5", "0", ".", "0", "0">>, <<"1", "2", ".", "5">>}
FormDescriptions == {"", "Groceries"}
FormCategories == {"", "Food"}
FormDates == {"2025-01-10"}

\* the useState initial values, which are also the values handleSubmit sets
\* after a successful onSubmit
clearedForm(day) ==
    [amount |-> <<>>, description |-> "", category |-> "", date |-> day, isSubmitting |-> FALSE]

\* a render whose button is never disabled
renderEnabled(f) ==
    [amount |-> f.amount, description |-> f.description, category |-> f.category,
     date |-> f.date, disabled |-> FALSE,
     label |-> IF f.isSubmitting THEN "Adding..." ELSE "Add Expense"]

\* the controlled inputs and the submit button that the component returns
render(f) ==
    [amount |-> f.amount, description |-> f.description, category |-> f.category,
     date |-> f.date, disabled |-> f.isSubmitting,
     label |-> IF f.isSubmitting THEN "Adding..." ELSE "Add Expense"]

\* the argument handleSubmit passes to onSubmit
submittedDto(f) ==
    [amount |-> parseFloat(f.amount), description |-> f.description,
     category |-> f.category, date |-> f.date, userId |-> FormUserId]

(***************************************************************************)
(* Initial state: both repositories empty, no call made yet, the form as   *)
(* its first render shows it.                                              *)
(***************************************************************************)
InitIn(zone) ==
    /\ expenses = <<>>
    /\ limits = <<>>
    /\ classLimits = <<>>
    /\ uuidCount = [expense |-> 0, limit |-> 0]
    /\ tz = zone
    /\ response = Returned("init", [void |-> TRUE])
    /\ ledger = <<>>
    /\ updateCount = 0
    /\ suspended = <<>>
    /\ today = FirstDay
    /\ formState = clearedForm(FirstDay)
    /\ dom = render(clearedForm(FirstDay))
    /\ app = [expenses |-> <<>>, summary |-> None,
              isLoadingExpenses |-> FALSE, isLoadingSummary |-> FALSE]
    /\ requests = <<>>
    /\ issued = 0
    /\ shownFrom = [expenses |-> 0, summary |-> 0, reloadedExpenses |-> 0, reloadedSummary |-> 0]

\* a server whose local time is UTC
Init == InitIn(0)

(***************************************************************************)
(* Operations.                                                             *)
(***************************************************************************)
\* a use case that calls the repository's create twice and returns the second
\* result
executeTwice(dto) ==
    LET first == randomUUID("expense", uuidCount.expense + 1)
        id == randomUUID("expense", uuidCount.expense + 2)
    IN  /\ expenses' = createPush(createPush(expenses, first, dto), id, dto)
        /\ response' = Returned("create", createdExpense(id, dto))
        /\ ledger' = Append(ledgerCreated(first, dto),
                            [id |-> id, createdFor |-> dto.userId, owner |-> dto.userId,
                             deleted |-> FALSE, twin |-> Some(createdExpense(id, dto))])
        /\ uuidCount' = [uuidCount EXCEPT !.expense = @ + 2]
        /\ UNCHANGED <<limits, classLimits, tz, updateCount>>

\* CreateExpenseUseCase.execute(dto) -> InMemoryExpenseRepository.create(dto)
execute(dto) ==
    LET id == randomUUID("expense", uuidCount.expense + 1)
    IN  /\ expenses' = createPush(expenses, id, dto)
        /\ response' = Returned("create", createdExpense(id, dto))
        /\ ledger' = ledgerCreated(id, dto)
        /\ uuidCount' = [uuidCount EXCEPT !.expense = @ + 1]
        /\ UNCHANGED <<limits, classLimits, tz, updateCount>>

\* a caller of CreateExpenseUseCase.execute with a Date in hand
CreateExpense(dto) ==
    /\ uuidCount.expense < MaxCreates
    /\ execute(dto)

\* a caller of CreateExpenseUseCase.execute in the runs that follow the order
\* of the records
AddExpense(dto) ==
    /\ uuidCount.expense < MaxRecords
    /\ execute(dto)

\* POST /expenses -> ExpenseController.create
PostExpense(body) ==
    /\ uuidCount.expense < MaxPosts
    /\ execute([body EXCEPT !.date = newDate(body.date)])

\* an update that answers null for an id it does not find
updateNotFoundIgnored == Returned("update", [found |-> None])

\* throw new Error('Expense not found')
updateNotFound == Thrown("update", "Expense not found")

\* InMemoryExpenseRepository.update(id, partial)
UpdateExpense(id, partial) ==
    /\ updateCount < MaxUpdates
    /\ updateCount' = updateCount + 1
    /\ LET index == findIndex(expenses, id)
       IN  IF index = 0
           THEN /\ response' = updateNotFound
                /\ ledger' = ledgerUpdated(id, partial)
                /\ UNCHANGED expenses
           ELSE /\ expenses' = updateAssign(expenses, index, id, partial)
                /\ response' = Returned("update", updatedExpense(expenses, index, id, partial))
                /\ ledger' = ledgerUpdated(id, partial)
    /\ UNCHANGED <<limits, classLimits, uuidCount, tz>>

\* InMemoryExpenseRepository.delete(id)
DeleteExpense(id) ==
    /\ expenses' = deleteFilter(expenses, id)
    /\ response' = Returned("delete", [void |-> TRUE])
    /\ ledger' = ledgerDeleted(id)
    /\ UNCHANGED <<limits, classLimits, uuidCount, tz, updateCount>>

\* InMemoryExpenseRepository.findAll(userId)
FindAll(userId) ==
    /\ response' = Returned("findAll", [items |-> findAll(expenses, userId)])
    /\ UNCHANGED <<expenses, limits, classLimits, uuidCount, tz, ledger, updateCount>>

\* InMemoryExpenseRepository.findById(id)
FindById(id) ==
    /\ response' = Returned("findById", [found |-> findById(expenses, id)])
    /\ UNCHANGED <<expenses, limits, classLimits, uuidCount, tz, ledger, updateCount>>

\* a monthly query that takes what it returns out of the array
GetMonthlySplicing(userId, month, year) ==
    /\ response' = Returned("getMonthly", [items |-> findByMonth(expenses, userId, month, year)])
    /\ expenses' = SelectSeq(expenses, LAMBDA expense : ~monthFilter(expense, userId, month, year))
    /\ UNCHANGED <<limits, classLimits, uuidCount, tz, ledger, updateCount>>

\* GET /expenses -> ExpenseController.getMonthly -> GetMonthlyExpensesUseCase.execute
GetMonthly(userId, month, year) ==
    /\ response' = Returned("getMonthly", [items |-> findByMonth(expenses, userId, month, year)])
    /\ UNCHANGED <<expenses, limits, classLimits, uuidCount, tz, ledger, updateCount>>

\* GET /expenses/summary -> ExpenseController.getSummary -> GetSpendingSummaryUseCase.execute
GetSummary(userId, month, year) ==
    /\ response' = Returned("getSummary",
                            getSpendingSummary(expenses, limitsOf(useCaseRepository),
                                               userId, month, year))
    /\ UNCHANGED <<expenses, limits, classLimits, uuidCount, tz, ledger, updateCount>>

\* InMemorySpendingLimitRepository.findByUserAndMonth(userId, month, year), on
\* the instance the use case holds
FindByUserAndMonth(userId, month, year) ==
    /\ response' = Returned("findByUserAndMonth",
                            [found |-> findByUserAndMonth(limitsOf(useCaseRepository),
                                                          userId, month, year)])
    /\ UNCHANGED <<expenses, limits, classLimits, uuidCount, tz, ledger, updateCount>>

\* InMemorySpendingLimitRepository.update(id, partial), on the instance behind
\* the token
UpdateLimit(id, partial) ==
    /\ updateCount < MaxUpdates
    /\ updateCount' = updateCount + 1
    /\ LET index == findIndex(limits, id)
       IN  IF index = 0
           THEN /\ response' = Thrown("updateLimit", "Spending limit not found")
                /\ UNCHANGED limits
           ELSE /\ limits' = limitUpdateAssign(limits, index, id, partial)
                /\ response' = Returned("updateLimit", updatedLimit(limits, index, id, partial))
    /\ UNCHANGED <<expenses, classLimits, uuidCount, tz, ledger>>

\* InMemorySpendingLimitRepository.delete(id), on the instance behind the token
DeleteLimit(id) ==
    /\ limits' = limitDeleteFilter(limits, id)
    /\ response' = Returned("deleteLimit", [void |-> TRUE])
    /\ UNCHANGED <<expenses, classLimits, uuidCount, tz, ledger, updateCount>>

\* GET /expenses?userId=&month=&year= : the ParseIntPipe of month and of year,
\* then ExpenseController.getMonthly
GetExpensesRequest(userId, month, year) ==
    IF isNumeric(month) /\ isNumeric(year)
    THEN GetMonthly(userId, parseInt(month[1]), parseInt(year[1]))
    ELSE /\ response' = BadRequest("getMonthly")
         /\ UNCHANGED <<expenses, limits, classLimits, uuidCount, tz, ledger, updateCount>>

\* GET /expenses/summary?userId=&month=&year= : the ParseIntPipe of month and
\* of year, then ExpenseController.getSummary
GetSummaryRequest(userId, month, year) ==
    IF isNumeric(month) /\ isNumeric(year)
    THEN GetSummary(userId, parseInt(month[1]), parseInt(year[1]))
    ELSE /\ response' = BadRequest("getSummary")
         /\ UNCHANGED <<expenses, limits, classLimits, uuidCount, tz, ledger, updateCount>>

\* POST /spending-limits -> SpendingLimitController.create -> repository create
PostSpendingLimit(dto) ==
    /\ uuidCount.limit < MaxLimits
    /\ LET id == randomUUID("limit", uuidCount.limit + 1)
       IN  /\ IF controllerRepository = "token"
              THEN limits' = limitPush(limits, id, dto) /\ UNCHANGED classLimits
              ELSE classLimits' = limitPush(classLimits, id, dto) /\ UNCHANGED limits
           /\ response' = Returned("postSpendingLimit", createdLimit(id, dto))
    /\ uuidCount' = [uuidCount EXCEPT !.limit = @ + 1]
    /\ UNCHANGED <<expenses, tz, ledger, updateCount>>

(***************************************************************************)
(* GetSpendingSummaryUseCase.execute step by step.  An async function runs *)
(* up to an await, waits there, and goes on in a later step; a repository  *)
(* method has no await of its own, so it reads or writes its array in the  *)
(* step that calls it.  A waiting handler holds its place (at), its        *)
(* locals, and as history the summaries of the states the two stores went  *)
(* through since it began (seen).                                          *)
(***************************************************************************)
Without(handlers, i) == SubSeq(handlers, 1, i - 1) \o SubSeq(handlers, i + 1, Len(handlers))

\* the waiting handlers after a step that leaves the stores as primed
Watching ==
    [i \in 1..Len(suspended) |->
        IF suspended[i].op = "getSummary"
        THEN [suspended[i] EXCEPT
                !.seen = @ \cup {getSpendingSummary(
                                    expenses',
                                    IF useCaseRepository = "token" THEN limits' ELSE classLimits',
                                    suspended[i].userId, suspended[i].month, suspended[i].year)}]
        ELSE suspended[i]]

\* a call made while other handlers wait
Amid(call) == call /\ suspended' = Watching /\ UNCHANGED frontend

\* execute up to `await this.expenseRepository.findByMonth(...)`
GetSummaryCall(userId, month, year) ==
    /\ Len(suspended) < MaxSuspended
    /\ suspended' = Append(suspended,
            [op |-> "getSummary", at |-> "findByMonth",
             userId |-> userId, month |-> month, year |-> year,
             found |-> findByMonth(expenses, userId, month, year),
             limit |-> None,
             seen |-> {SummaryFor(userId, month, year)}])
    /\ UNCHANGED <<expenses, limits, classLimits, uuidCount, tz, response, ledger, updateCount>>
    /\ UNCHANGED frontend

\* from there up to `await this.spendingLimitRepository.findByUserAndMonth(...)`
GetSummaryAfterExpenses(i) ==
    /\ suspended[i].op = "getSummary"
    /\ suspended[i].at = "findByMonth"
    /\ suspended' = [suspended EXCEPT ![i] =
            [@ EXCEPT !.at = "findByUserAndMonth",
                      !.limit = findByUserAndMonth(limitsOf(useCaseRepository),
                                                   suspended[i].userId, suspended[i].month,
                                                   suspended[i].year)]]
    /\ UNCHANGED <<expenses, limits, classLimits, uuidCount, tz, response, ledger, updateCount>>
    /\ UNCHANGED frontend

\* from there to the return
GetSummaryAfterLimit(i) ==
    /\ suspended[i].op = "getSummary"
    /\ suspended[i].at = "findByUserAndMonth"
    /\ LET totalSpent == reduceSum(suspended[i].found, Num(0))
           limit == suspended[i].limit
       IN  response' = Returned("getSummary",
                                IF limit = None
                                THEN summaryWithoutLimit(totalSpent)
                                ELSE summaryWithLimit(totalSpent, limit[1]))
    /\ suspended' = Without(suspended, i)
    /\ UNCHANGED <<expenses, limits, classLimits, uuidCount, tz, ledger, updateCount>>
    /\ UNCHANGED frontend

\* A caller of a repository method: `await repository.method(...)` runs the
\* method, which settles its promise with what it returned or threw, and
\* waits; the handler holds the call and that outcome.
Called(call, store, method, id, partial) ==
    /\ Len(suspended) < MaxWriters
    /\ call
    /\ suspended' = Append(suspended,
            [op |-> "write", store |-> store, method |-> method,
             id |-> IF method = "create" THEN response'.body.id ELSE id,
             partial |-> partial, outcome |-> response'])
    /\ UNCHANGED frontend

\* the caller that has waited longest goes on after its await
Resumed ==
    /\ suspended # <<>>
    /\ suspended[1].op = "write"
    /\ suspended' = Tail(suspended)
    /\ UNCHANGED <<expenses, limits, classLimits, uuidCount, tz, response, ledger, updateCount>>
    /\ UNCHANGED frontend

\* a call that is awaited to its end while no other handler takes a step
Alone(call) == call /\ UNCHANGED suspended /\ UNCHANGED frontend

(***************************************************************************)
(* ExpenseForm step by step.  React commits the render of a state update   *)
(* made in an event handler before the browser delivers the next event, so *)
(* each step ends with the page showing the new state.  The browser        *)
(* delivers a submit event only while the submit button is not disabled    *)
(* and every required input is filled.  A handleSubmit call waits at       *)
(* `await onSubmit(...)` until the promise settles.                        *)
(***************************************************************************)
backend == <<expenses, limits, classLimits, uuidCount, tz, ledger, updateCount>>

\* onChange of the amount input
ChangeAmount(value) ==
    /\ formState' = [formState EXCEPT !.amount = value]
    /\ dom' = render(formState')
    /\ UNCHANGED <<backend, response, suspended, today, appVars>>

\* onChange of the description input
ChangeDescription(value) ==
    /\ formState' = [formState EXCEPT !.description = value]
    /\ dom' = render(formState')
    /\ UNCHANGED <<backend, response, suspended, today, appVars>>

\* onChange of the category input
ChangeCategory(value) ==
    /\ formState' = [formState EXCEPT !.category = value]
    /\ dom' = render(formState')
    /\ UNCHANGED <<backend, response, suspended, today, appVars>>

\* onChange of the date input
ChangeDate(value) ==
    /\ formState' = [formState EXCEPT !.date = value]
    /\ dom' = render(formState')
    /\ UNCHANGED <<backend, response, suspended, today, appVars>>

\* the inputs marked required all hold a value
RequiredFilled ==
    /\ dom.amount # <<>>
    /\ dom.description # ""
    /\ dom.category # ""
    /\ dom.date # ""

\* a submit event: handleSubmit up to `await onSubmit({...})`
Submit ==
    /\ ~dom.disabled
    /\ RequiredFilled
    /\ Len(suspended) < MaxSubmissions
    /\ formState' = [formState EXCEPT !.isSubmitting = TRUE]
    /\ suspended' = Append(suspended, [op |-> "handleSubmit", dto |-> submittedDto(formState)])
    /\ dom' = render(formState')
    /\ UNCHANGED <<backend, response, today, appVars>>

\* a handleSubmit whose catch clears the inputs as well
SubmitRejectedClearing(i) ==
    /\ suspended[i].op = "handleSubmit"
    /\ response' = Thrown("onSubmit", "Failed to create expense")
    /\ formState' = clearedForm(today)
    /\ suspended' = Without(suspended, i)
    /\ dom' = render(formState')
    /\ UNCHANGED <<backend, today, appVars>>

\* a handleSubmit without its finally block
SubmitRejectedStuck(i) ==
    /\ suspended[i].op = "handleSubmit"
    /\ response' = Thrown("onSubmit", "Failed to create expense")
    /\ formState' = formState
    /\ suspended' = Without(suspended, i)
    /\ dom' = render(formState')
    /\ UNCHANGED <<backend, today, appVars>>

\* the onSubmit promise resolves: handleSubmit from its await through the
\* four setters of the try block and the finally block
SubmitResolved(i) ==
    /\ suspended[i].op = "handleSubmit"
    /\ response' = Returned("onSubmit", [void |-> TRUE])
    /\ formState' = [clearedForm(today) EXCEPT !.isSubmitting = FALSE]
    /\ suspended' = Without(suspended, i)
    /\ dom' = render(formState')
    /\ UNCHANGED <<backend, today, appVars>>

\* the onSubmit promise rejects: handleSubmit from its await through the
\* catch block and the finally block
SubmitRejected(i) ==
    /\ suspended[i].op = "handleSubmit"
    /\ response' = Thrown("onSubmit", "Failed to create expense")
    /\ formState' = [formState EXCEPT !.isSubmitting = FALSE]
    /\ suspended' = Without(suspended, i)
    /\ dom' = render(formState')
    /\ UNCHANGED <<backend, today, appVars>>

\* the clock passes midnight UTC
Midnight ==
    /\ today = FirstDay
    /\ today' = NextDay
    /\ UNCHANGED <<backend, response, suspended, formState, dom, appVars>>

(***************************************************************************)
(* What travels between server and browser.  The server answers with       *)
(* JSON.stringify of what the controller returned: a number that is NaN or *)
(* an infinity becomes null, a Date becomes its toISOString() text, an     *)
(* Invalid Date becomes null.                                              *)
(***************************************************************************)
jsonNumber(x) == IF x.kind \in {"nan", "inf"} THEN null ELSE x

\* Date.prototype.toJSON
toJSON(date) ==
    IF date.valid
    THEN LET civil == CivilOfDay[date.t \div 24]
         IN  DateString("utc", civil.year, civil.month + 1, civil.day, date.t % 24)
    ELSE DateString("null", 0, 0, 0, 0)

jsonExpense(expense) ==
    [expense EXCEPT !.amount = jsonNumber(@), !.date = toJSON(@)]

jsonExpenses(es) == [k \in 1..Len(es) |-> jsonExpense(es[k])]

jsonSummary(summary) ==
    [totalSpent |-> jsonNumber(summary.totalSpent),
     spendingLimit |-> jsonNumber(summary.spendingLimit),
     remainingBudget |-> jsonNumber(summary.remainingBudget),
     percentageUsed |-> jsonNumber(summary.percentageUsed)]

(***************************************************************************)
(* SpendingSummary: what the component renders for its props, or the       *)
(* TypeError of calling toFixed on null.                                   *)
(***************************************************************************)
SpendingSummaryView(summary, isLoading) ==
    IF isLoading THEN [status |-> "rendered", text |-> "Loading summary..."]
    ELSE IF summary = None THEN [status |-> "rendered", text |-> "No summary available"]
    ELSE IF summary[1].totalSpent = null
            THEN [status |-> "thrown", text |-> "TypeError"]
    ELSE IF summary[1].spendingLimit = null
            THEN [status |-> "rendered", text |-> "Total Spent"]
    ELSE IF summary[1].remainingBudget = null \/ summary[1].percentageUsed = null
            THEN [status |-> "thrown", text |-> "TypeError"]
    ELSE [status |-> "rendered", text |-> "Total Spent, Monthly Limit, Remaining Budget, Percentage Used"]

(***************************************************************************)
(* App step by step.  A fetch call is sent, handled by the server at some  *)
(* later time, and its answer reaches the browser at some time after that; *)
(* at any time before, it can fail (the network, or an answer that is not  *)
(* ok).  The async functions of App and of ExpenseService wait at their    *)
(* awaits for exactly one fetch call each, so a settled fetch call runs    *)
(* them on, within one turn of the event loop, up to the next fetch call.  *)
(* A render of SpendingSummary that throws unmounts the application.       *)
(***************************************************************************)
\* the month App tracks: that of the browser's clock when it mounted
AppMonth == Num(1)
AppYear == Num(2025)

\* what the form hands to onSubmit
AppDtos ==
    { [amount |-> Num(50), description |-> "Groceries", category |-> "Food",
       date |-> DateString("date", 2025, 1, 15, 0), userId |-> FormUserId] }

NoBody == [void |-> TRUE]

\* a fetch call just made
Fetch(n, kind, caller, body) ==
    [n |-> n, kind |-> kind, caller |-> caller, stage |-> "sent", body |-> body, answer |-> NoBody]

Crashed == SpendingSummaryView(app.summary, app.isLoadingSummary).status = "thrown"

\* useEffect after the first render: loadExpenses() and loadSummary(), each up
\* to its fetch call
Mount ==
    /\ issued = 0
    /\ app' = [app EXCEPT !.isLoadingExpenses = TRUE, !.isLoadingSummary = TRUE]
    /\ requests' = <<Fetch(1, "expenses", "useEffect", NoBody),
                     Fetch(2, "summary", "useEffect", NoBody)>>
    /\ issued' = 2
    /\ UNCHANGED <<backend, response, suspended, formVars, shownFrom>>

\* onSubmit of the form: handleCreateExpense up to the fetch call of
\* createExpense.  The form has one submission in flight at a time.
HandleCreateExpense(expenseData) ==
    /\ issued > 0
    /\ ~Crashed
    /\ issued + 3 <= MaxFetches
    /\ \A i \in 1..Len(requests) : requests[i].caller # "handleCreateExpense"
    /\ requests' = Append(requests, Fetch(issued + 1, "create", "handleCreateExpense", expenseData))
    /\ issued' = issued + 1
    /\ UNCHANGED <<backend, response, suspended, formVars, app, shownFrom>>

\* the server handles POST /expenses
ServeCreate(i) ==
    /\ requests[i].kind = "create"
    /\ requests[i].stage = "sent"
    /\ PostExpense(requests[i].body)
    /\ requests' = [requests EXCEPT ![i].stage = "answered",
                                    ![i].answer = jsonExpense(response'.body)]
    /\ UNCHANGED <<suspended, formVars, app, issued, shownFrom>>

\* the server handles GET /expenses
ServeExpenses(i) ==
    /\ requests[i].kind = "expenses"
    /\ requests[i].stage = "sent"
    /\ GetMonthly(FormUserId, AppMonth, AppYear)
    /\ requests' = [requests EXCEPT ![i].stage = "answered",
                                    ![i].answer = [items |-> jsonExpenses(response'.body.items)]]
    /\ UNCHANGED <<suspended, formVars, app, issued, shownFrom>>

\* the server handles GET /expenses/summary
ServeSummary(i) ==
    /\ requests[i].kind = "summary"
    /\ requests[i].stage = "sent"
    /\ GetSummary(FormUserId, AppMonth, AppYear)
    /\ requests' = [requests EXCEPT ![i].stage = "answered",
                                    ![i].answer = jsonSummary(response'.body)]
    /\ UNCHANGED <<suspended, formVars, app, issued, shownFrom>>

\* a handleCreateExpense that starts both reloads together
CreateSucceededParallel(i) ==
    /\ ~Crashed
    /\ requests[i].kind = "create"
    /\ requests[i].stage = "answered"
    /\ app' = [app EXCEPT !.isLoadingExpenses = TRUE, !.isLoadingSummary = TRUE]
    /\ requests' = Without(requests, i) \o
                   <<Fetch(issued + 1, "expenses", "useEffect", NoBody),
                     Fetch(issued + 2, "summary", "handleCreateExpense", NoBody)>>
    /\ issued' = issued + 2
    /\ UNCHANGED <<backend, response, suspended, formVars, shownFrom>>

\* the answer to POST /expenses arrives: createExpense returns, and
\* handleCreateExpense runs on into loadExpenses(), up to its fetch call
CreateSucceeded(i) ==
    /\ ~Crashed
    /\ requests[i].kind = "create"
    /\ requests[i].stage = "answered"
    /\ app' = [app EXCEPT !.isLoadingExpenses = TRUE]
    /\ requests' = Append(Without(requests, i),
                          Fetch(issued + 1, "expenses", "handleCreateExpense", NoBody))
    /\ issued' = issued + 1
    /\ UNCHANGED <<backend, response, suspended, formVars, shownFrom>>

\* POST /expenses fails: createExpense throws, handleCreateExpense has no catch
\* and rejects the promise it gave to the form
CreateFailed(i) ==
    /\ ~Crashed
    /\ requests[i].kind = "create"
    /\ requests' = Without(requests, i)
    /\ response' = Thrown("handleCreateExpense", "Failed to create expense")
    /\ UNCHANGED <<backend, suspended, formVars, app, issued, shownFrom>>

\* loadSummary() up to its fetch call, when the loadExpenses() that ended was
\* the one handleCreateExpense awaited
ThenLoadSummary(caller, loaded) ==
    IF caller = "handleCreateExpense"
    THEN /\ app' = [loaded EXCEPT !.isLoadingSummary = TRUE]
         /\ issued' = issued + 1
    ELSE /\ app' = loaded
         /\ issued' = issued

\* the fetch calls left when call i has settled, with the one ThenLoadSummary made
AfterExpenses(i) ==
    IF requests[i].caller = "handleCreateExpense"
    THEN Append(Without(requests, i), Fetch(issued + 1, "summary", "handleCreateExpense", NoBody))
    ELSE Without(requests, i)

\* the answer to GET /expenses arrives: loadExpenses from its await through
\* setExpenses and the finally block
ExpensesLoaded(i) ==
    /\ ~Crashed
    /\ requests[i].kind = "expenses"
    /\ requests[i].stage = "answered"
    /\ ThenLoadSummary(requests[i].caller,
                       [app EXCEPT !.expenses = requests[i].answer.items,
                                   !.isLoadingExpenses = FALSE])
    /\ requests' = AfterExpenses(i)
    /\ shownFrom' = [shownFrom EXCEPT
                        !.expenses = requests[i].n,
                        !.reloadedExpenses = IF requests[i].caller = "handleCreateExpense"
                                             THEN requests[i].n ELSE @]
    /\ UNCHANGED <<backend, response, suspended, formVars>>

\* GET /expenses fails: loadExpenses from its await through the catch block
\* and the finally block
ExpensesFailed(i) ==
    /\ ~Crashed
    /\ requests[i].kind = "expenses"
    /\ ThenLoadSummary(requests[i].caller, [app EXCEPT !.isLoadingExpenses = FALSE])
    /\ requests' = AfterExpenses(i)
    /\ UNCHANGED <<backend, response, suspended, formVars, shownFrom>>

\* handleCreateExpense returns when the loadSummary() it awaited has ended
ThenReturn(caller) ==
    IF caller = "handleCreateExpense"
    THEN response' = Returned("handleCreateExpense", [void |-> TRUE])
    ELSE UNCHANGED response

\* the answer to GET /expenses/summary arrives: loadSummary from its await
\* through setSummary and the finally block
SummaryLoaded(i) ==
    /\ ~Crashed
    /\ requests[i].kind = "summary"
    /\ requests[i].stage = "answered"
    /\ app' = [app EXCEPT !.summary = Some(requests[i].answer), !.isLoadingSummary = FALSE]
    /\ requests' = Without(requests, i)
    /\ shownFrom' = [shownFrom EXCEPT
                        !.summary = requests[i].n,
                        !.reloadedSummary = IF requests[i].caller = "handleCreateExpense"
                                            THEN requests[i].n ELSE @]
    /\ ThenReturn(requests[i].caller)
    /\ UNCHANGED <<backend, suspended, formVars, issued>>

\* GET /expenses/summary fails: loadSummary from its await through the catch
\* block and the finally block
SummaryFailed(i) ==
    /\ ~Crashed
    /\ requests[i].kind = "summary"
    /\ app' = [app EXCEPT !.isLoadingSummary = FALSE]
    /\ requests' = Without(requests, i)
    /\ ThenReturn(requests[i].caller)
    /\ UNCHANGED <<backend, suspended, formVars, issued, shownFrom>>

(***************************************************************************)
(* The application as the AppModule wires it, driven through its four HTTP *)
(* routes.                                                                 *)
(***************************************************************************)
Next ==
    \/ \E body \in PostBodies : Alone(PostExpense(body))
    \/ \E userId \in Users, month \in Months, year \in Years :
          Alone(GetMonthly(userId, month, year))
    \/ \E userId \in Users, month \in Months, year \in Years :
          Alone(GetSummary(userId, month, year))
    \/ \E dto \in LimitDtos : Alone(PostSpendingLimit(dto))

Spec == Init /\ [][Next]_vars

(***************************************************************************)
(* The same routes with the two GET requests as they arrive, their month   *)
(* and year still text that the ParseIntPipe has to accept.                *)
(***************************************************************************)
BoundaryBodies == {body \in PostBodies : body.description \in {"Expense A", "Refund"}}
BoundaryLimits == {dto \in LimitDtos : dto.monthlyLimit = Num(1000)}

BoundaryNext ==
    \/ \E body \in BoundaryBodies : Alone(PostExpense(body))
    \/ \E dto \in BoundaryLimits : Alone(PostSpendingLimit(dto))
    \/ \E userId \in Users, month \in QueryMonths, year \in QueryYears :
          Alone(GetExpensesRequest(userId, month, year))
    \/ \E userId \in Users, month \in QueryMonths, year \in QueryYears :
          Alone(GetSummaryRequest(userId, month, year))

BoundarySpec == Init /\ [][BoundaryNext]_vars

(***************************************************************************)
(* The read operations of both repositories and the summary, over stores   *)
(* that creates fill.                                                      *)
(***************************************************************************)
ReadDtos == {dto \in CreateDtos : dto.description # "Expense B"}
ReadLimits == {dto \in LimitDtos : dto.monthlyLimit = Num(500)}

ReadNext ==
    \/ \E dto \in ReadDtos : Alone(CreateExpense(dto))
    \/ \E dto \in ReadLimits : Alone(PostSpendingLimit(dto))
    \/ \E userId \in Users : Alone(FindAll(userId))
    \/ \E id \in ExpenseIds : Alone(FindById(id))
    \/ \E userId \in Users, month \in Months, year \in Years :
          Alone(GetMonthly(userId, month, year))
    \/ \E userId \in Users, month \in Months, year \in Years :
          Alone(FindByUserAndMonth(userId, month, year))
    \/ \E userId \in Users, month \in Months, year \in Years :
          Alone(GetSummary(userId, month, year))

ReadSpec == Init /\ [][ReadNext]_vars

(***************************************************************************)
(* The mutations of the expense store next to the creation of limits, for  *)
(* two users.                                                              *)
(***************************************************************************)
TenantPartials == {partial \in UpdatePartials : partial.id = None /\ partial # NoFields}

TenantNext ==
    \/ \E dto \in ReadDtos : Alone(CreateExpense(dto))
    \/ \E id \in ExpenseIds, partial \in TenantPartials : Alone(UpdateExpense(id, partial))
    \/ \E id \in ExpenseIds : Alone(DeleteExpense(id))
    \/ \E dto \in ReadLimits : Alone(PostSpendingLimit(dto))

TenantSpec == Init /\ [][TenantNext]_vars

(***************************************************************************)
(* Creates, updates and deletes interleaved, with findAll reading the      *)
(* order they leave.                                                       *)
(***************************************************************************)
OrderIds == {randomUUID("expense", n) : n \in 1..MaxRecords}
OrderPartials == {partial \in UpdatePartials : partial.amount # None}

OrderNext ==
    \/ \E dto \in ReadDtos : Alone(AddExpense(dto))
    \/ \E id \in OrderIds, partial \in OrderPartials : Alone(UpdateExpense(id, partial))
    \/ \E id \in OrderIds : Alone(DeleteExpense(id))
    \/ \E userId \in Users : Alone(FindAll(userId))

OrderSpec == Init /\ [][OrderNext]_vars

(***************************************************************************)
(* Summary requests in flight while expenses and limits are posted.        *)
(***************************************************************************)
SummaryBodies == {body \in PostBodies : body.description \in {"Expense A", "Expense B"}}

SummaryNext ==
    \/ \E body \in SummaryBodies : Amid(PostExpense(body))
    \/ \E dto \in BoundaryLimits : Amid(PostSpendingLimit(dto))
    \/ \E userId \in Users, year \in Years : GetSummaryCall(userId, Num(1), year)
    \/ \E i \in 1..Len(suspended) : GetSummaryAfterExpenses(i)
    \/ \E i \in 1..Len(suspended) : GetSummaryAfterLimit(i)

SummarySpec == Init /\ [][SummaryNext]_vars

(***************************************************************************)
(* Concurrent callers of the mutating methods of both repositories.        *)
(***************************************************************************)
WriterDtos == {dto \in CreateDtos : dto.description = "Expense A"}
WriterPartials == {partial \in OrderPartials : partial.id = None}
\* the ids a caller can name: those a create has returned
IssuedIds(repository) == {randomUUID(repository, n) : n \in 1..uuidCount[repository]}
WriterLimits == BoundaryLimits
NoLimitFields == [userId |-> None, monthlyLimit |-> None, month |-> None, year |-> None]
WriterLimitPartials == {[NoLimitFields EXCEPT !.monthlyLimit = Some(Num(500))]}

WritersNext ==
    \/ \E dto \in WriterDtos : Called(CreateExpense(dto), "expense", "create", "", NoFields)
    \/ \E id \in IssuedIds("expense"), partial \in WriterPartials :
          Called(UpdateExpense(id, partial), "expense", "update", id, partial)
    \/ \E id \in IssuedIds("expense") : Called(DeleteExpense(id), "expense", "delete", id, NoFields)
    \/ \E dto \in WriterLimits : Called(PostSpendingLimit(dto), "limit", "create", "", NoLimitFields)
    \/ \E id \in IssuedIds("limit"), partial \in WriterLimitPartials :
          Called(UpdateLimit(id, partial), "limit", "update", id, partial)
    \/ \E id \in IssuedIds("limit") : Called(DeleteLimit(id), "limit", "delete", id, NoLimitFields)
    \/ Resumed

WritersSpec == Init /\ [][WritersNext]_vars

(***************************************************************************)
(* POST /expenses and GET /expenses on servers in different time zones.    *)
(***************************************************************************)
\* local time minus UTC, in hours
Zones == {-5, 0, 9}

ZoneInit == \E zone \in Zones : InitIn(zone)

\* bodies whose date names the first day, a day in the middle and the last
\* day of January 2025
ZoneBodies ==
    { [amount |-> Num(100), description |-> "First day", category |-> "Food",
       date |-> DateString("date", 2025, 1, 1, 0), userId |-> "user-123"],
      [amount |-> Num(300), description |-> "Expense A", category |-> "Food",
       date |-> DateString("date", 2025, 1, 15, 0), userId |-> "user-123"],
      [amount |-> Num(200), description |-> "Last day", category |-> "Food",
       date |-> DateString("utc", 2025, 1, 31, 20), userId |-> "user-123"] }

ZoneMonths == {Num(12), Num(1), Num(2)}
ZoneYears == {Num(2024), Num(2025)}

ZoneNext ==
    \/ \E body \in ZoneBodies : Alone(PostExpense(body))
    \/ \E userId \in Users, month \in ZoneMonths, year \in ZoneYears :
          Alone(GetMonthly(userId, month, year))

ZoneSpec == ZoneInit /\ [][ZoneNext]_vars

(***************************************************************************)
(* Updates of both repositories that name falsy values: 0 and the empty    *)
(* string.                                                                 *)
(***************************************************************************)
FalsyPartials ==
    { [NoFields EXCEPT !.amount = Some(Num(0))],
      [NoFields EXCEPT !.description = Some("")],
      [NoFields EXCEPT !.amount = Some(Num(0)), !.description = Some(""), !.category = Some("")],
      [NoFields EXCEPT !.category = Some("Transport")] }

FalsyLimitPartials ==
    { [NoLimitFields EXCEPT !.monthlyLimit = Some(Num(0))],
      [NoLimitFields EXCEPT !.month = Some(Num(0)), !.userId = Some("")],
      [NoLimitFields EXCEPT !.year = Some(Num(2026))] }

LimitIds == {randomUUID("limit", n) : n \in 1..MaxLimits}

FalsyNext ==
    \/ \E dto \in WriterDtos : Alone(CreateExpense(dto))
    \/ \E dto \in BoundaryLimits : Alone(PostSpendingLimit(dto))
    \/ \E id \in ExpenseIds, partial \in FalsyPartials : Alone(UpdateExpense(id, partial))
    \/ \E id \in LimitIds, partial \in FalsyLimitPartials : Alone(UpdateLimit(id, partial))
    \/ \E id \in ExpenseIds : Alone(FindById(id))

FalsySpec == Init /\ [][FalsyNext]_vars

(***************************************************************************)
(* The routes with a spending limit of 0 among the limits posted.          *)
(***************************************************************************)
ZeroLimits ==
    BoundaryLimits \cup
    { [userId |-> "user-123", monthlyLimit |-> Num(0), month |-> Num(1), year |-> Num(2025)] }

ZeroLimitNext ==
    \/ \E body \in BoundaryBodies : Alone(PostExpense(body))
    \/ \E dto \in ZeroLimits : Alone(PostSpendingLimit(dto))
    \/ \E userId \in Users, month \in Months, year \in Years :
          Alone(GetSummary(userId, month, year))

ZeroLimitSpec == Init /\ [][ZeroLimitNext]_vars

(***************************************************************************)
(* ExpenseForm with an onSubmit that resolves or rejects at any time.      *)
(***************************************************************************)
FormNext ==
    \/ \E value \in FormAmounts : ChangeAmount(value)
    \/ \E value \in FormDescriptions : ChangeDescription(value)
    \/ \E value \in FormCategories : ChangeCategory(value)
    \/ \E value \in FormDates \cup {today} : ChangeDate(value)
    \/ Submit
    \/ \E i \in 1..Len(suspended) : SubmitResolved(i)
    \/ \E i \in 1..Len(suspended) : SubmitRejected(i)
    \/ Midnight

FormSpec == Init /\ [][FormNext]_vars

(***************************************************************************)
(* App in the browser against the server: the loads of its mount and the   *)
(* submissions of its form.                                                *)
(***************************************************************************)
AppNext ==
    \/ Mount
    \/ \E expenseData \in AppDtos : HandleCreateExpense(expenseData)
    \/ \E i \in 1..Len(requests) : ServeCreate(i)
    \/ \E i \in 1..Len(requests) : ServeExpenses(i)
    \/ \E i \in 1..Len(requests) : ServeSummary(i)
    \/ \E i \in 1..Len(requests) : CreateSucceeded(i)
    \/ \E i \in 1..Len(requests) : CreateFailed(i)
    \/ \E i \in 1..Len(requests) : ExpensesLoaded(i)
    \/ \E i \in 1..Len(requests) : ExpensesFailed(i)
    \/ \E i \in 1..Len(requests) : SummaryLoaded(i)
    \/ \E i \in 1..Len(requests) : SummaryFailed(i)

AppSpec == Init /\ [][AppNext]_vars

(***************************************************************************)
(* App showing the summary while expenses and limits, a limit of 0 among   *)
(* them, are posted to the server by other clients.                        *)
(***************************************************************************)
ViewNext ==
    \/ Mount
    \/ \E body \in SummaryBodies : Alone(PostExpense(body))
    \/ \E dto \in ZeroLimits : Alone(PostSpendingLimit(dto))
    \/ \E i \in 1..Len(requests) : ServeExpenses(i)
    \/ \E i \in 1..Len(requests) : ServeSummary(i)
    \/ \E i \in 1..Len(requests) : ExpensesLoaded(i)
    \/ \E i \in 1..Len(requests) : ExpensesFailed(i)
    \/ \E i \in 1..Len(requests) : SummaryLoaded(i)
    \/ \E i \in 1..Len(requests) : SummaryFailed(i)

ViewSpec == Init /\ [][ViewNext]_vars

(***************************************************************************)
(* The expense repository driven directly through its six methods, with    *)
(* the summary use case reading it.                                        *)
(***************************************************************************)
RepoNext ==
    \/ \E dto \in CreateDtos : Alone(CreateExpense(dto))
    \/ \E id \in ExpenseIds, partial \in UpdatePartials : Alone(UpdateExpense(id, partial))
    \/ \E id \in ExpenseIds : Alone(DeleteExpense(id))
    \/ \E userId \in Users : Alone(FindAll(userId))
    \/ \E id \in ExpenseIds : Alone(FindById(id))
    \/ \E userId \in Users, month \in Months, year \in Years :
          Alone(GetMonthly(userId, month, year))
    \/ \E userId \in Users, month \in Months, year \in Years :
          Alone(GetSummary(userId, month, year))

RepoSpec == Init /\ [][RepoNext]_vars

(***************************************************************************)
(* Properties.                                                             *)
(***************************************************************************)
ClaimMonths == {1, 2, 3}
ClaimYears == {2024, 2025}

\* the date falls, in the server's local time, in month m1 (1..12) of year y
HasMonthYear(date, m1, y) ==
    /\ date.valid
    /\ LET civil == CivilOfDay[(date.t + tz) \div 24]
       IN  civil.month = m1 - 1 /\ civil.year = y

InMonth(expense, userId, m1, y) ==
    expense.userId = userId /\ HasMonthYear(expense.date, m1, y)

\* the integer sum of the amounts of the first k stored expenses of (userId, m1, y)
RECURSIVE MonthTotal(_, _, _, _)
MonthTotal(k, userId, m1, y) ==
    IF k = 0 THEN 0
    ELSE MonthTotal(k - 1, userId, m1, y)
         + (IF InMonth(expenses[k], userId, m1, y) THEN expenses[k].amount.num ELSE 0)

\* the integer sum of the amounts of a sequence of expenses, from its end
RECURSIVE AmountSum(_)
AmountSum(es) ==
    IF es = <<>> THEN 0 ELSE es[Len(es)].amount.num + AmountSum(SubSeq(es, 1, Len(es) - 1))

MatchingLimits(userId, m1, y) ==
    LET ls == limitsOf(useCaseRepository)
    IN  {i \in 1..Len(ls) :
            ls[i].userId = userId /\ ls[i].month = Num(m1) /\ ls[i].year = Num(y)}

\* C1: after any creates, updates and deletes, findByMonth(U, M, Y) returns
\* only stored expenses of user U dated in month M of year Y, returns each
\* such stored expense exactly once, and lists them in creation order.
C1_FindByMonthExact ==
    \A u \in Users, m \in ClaimMonths, y \in ClaimYears :
        LET r == findByMonth(expenses, u, Num(m), Num(y))
        IN  /\ \A i \in 1..Len(r) :
                  /\ \E k \in 1..Len(expenses) : expenses[k] = r[i]
                  /\ InMonth(r[i], u, m, y)
            /\ \A k \in 1..Len(expenses) :
                  InMonth(expenses[k], u, m, y)
                      => Cardinality({i \in 1..Len(r) : r[i] = expenses[k]}) = 1
            /\ \A i, j \in 1..Len(r) :
                  i < j => ledgerIndex(r[i].id) < ledgerIndex(r[j].id)

\* a monthly query has answered one of two stored expenses after an update
C1_Witness ==
    /\ response.op = "getMonthly"
    /\ Len(response.body.items) = 1
    /\ Len(expenses) = 2
    /\ updateCount > 0

\* C2: when a limit matches (userId, month, year), the summary carries that
\* limit's monthlyLimit, remainingBudget = monthlyLimit - totalSpent (negative
\* when overspent) and percentageUsed = totalSpent / monthlyLimit * 100 (above
\* 100 when overspent); limit 1000 and total 600 give 400 and 60.
C2_SummaryWithLimit ==
    \A u \in Users, m \in ClaimMonths, y \in ClaimYears :
        LET s == SummaryFor(u, Num(m), Num(y))
            ls == limitsOf(useCaseRepository)
        IN  MatchingLimits(u, m, y) # {} =>
              \E i \in MatchingLimits(u, m, y) :
                LET L == ls[i].monthlyLimit
                    T == s.totalSpent
                IN  /\ s.spendingLimit = L
                    /\ s.remainingBudget.kind = "fin"
                    /\ s.remainingBudget.den = 1
                    /\ s.remainingBudget.num = L.num - T.num
                    /\ L.num # 0 =>
                          /\ s.percentageUsed.kind = "fin"
                          /\ s.percentageUsed.num * L.num = T.num * 100 * s.percentageUsed.den
                    /\ (L = Num(1000) /\ T = Num(600)) =>
                          /\ s.remainingBudget = Num(400)
                          /\ s.percentageUsed = Num(60)

\* the summary of 600 spent against a limit of 1000 has been served
C2_Witness ==
    /\ response.op = "getSummary"
    /\ response.body = [totalSpent |-> Num(600), spendingLimit |-> Num(1000),
                        remainingBudget |-> Num(400), percentageUsed |-> Num(60)]

\* C3: when no limit matches (userId, month, year), the summary is
\* {totalSpent: X, spendingLimit: null, remainingBudget: null,
\* percentageUsed: null} with X the sum of the matching expenses.
C3_SummaryWithoutLimit ==
    \A u \in Users, m \in ClaimMonths, y \in ClaimYears :
        MatchingLimits(u, m, y) = {} =>
            SummaryFor(u, Num(m), Num(y)) =
                [totalSpent |-> Num(MonthTotal(Len(expenses), u, m, y)),
                 spendingLimit |-> null, remainingBudget |-> null,
                 percentageUsed |-> null]

\* a summary with no limit was served while limits for other keys are stored
C3_Witness ==
    /\ response.op = "getSummary"
    /\ response.body.spendingLimit = null
    /\ response.body.totalSpent = Num(400)
    /\ Len(limits) > 0

\* C4: in every state of the expense store the summary's totalSpent for
\* (U, M, Y) is the sum of the current amounts of the expenses that
\* findByMonth(U, M, Y) returns, and 0 when it returns none.
C4_TotalSpentIsSum ==
    \A u \in Users, m \in ClaimMonths, y \in ClaimYears :
        LET r == findByMonth(expenses, u, Num(m), Num(y))
            total == SummaryFor(u, Num(m), Num(y)).totalSpent
        IN  /\ total = Num(AmountSum(r))
            /\ total = Num(MonthTotal(Len(expenses), u, m, y))
            /\ r = <<>> => total = Num(0)

\* a summary counted an updated amount (75) next to an untouched one (300)
C4_Witness ==
    /\ response.op = "getSummary"
    /\ response.body.totalSpent = Num(375)

\* C5: every limit created through POST /spending-limits is in the store the
\* summary reads: the summary for its (userId, month, year) never reports a
\* null spendingLimit, and after the first POST it reports the posted value.
C5_PostedLimitIsRead ==
    LET ls == limitsOf(useCaseRepository)
    IN  /\ Len(ls) = uuidCount.limit
        /\ \A i \in 1..Len(ls) :
              SummaryFor(ls[i].userId, ls[i].month, ls[i].year).spendingLimit # null
        /\ (response.op = "postSpendingLimit" /\ uuidCount.limit = 1) =>
              SummaryFor(response.body.userId, response.body.month,
                         response.body.year).spendingLimit = response.body.monthlyLimit

\* the first limit has just been posted
C5_Witness ==
    /\ response.op = "postSpendingLimit"
    /\ uuidCount.limit = 1
    /\ response.body.monthlyLimit = Num(1000)

CreatedFor(userId) == {i \in 1..Len(ledger) : ledger[i].createdFor = userId}
DeletedOf(userId) == {i \in CreatedFor(userId) : ledger[i].deleted}
OwnedBy(userId) == {i \in 1..Len(ledger) : ledger[i].owner = userId /\ ~ledger[i].deleted}

\* C6 as stated: the size of findAll(U) is the number of create calls made
\* with userId U minus the number of those records since deleted.
C6_AsStated ==
    \A u \in Users :
        Len(findAll(expenses, u)) = Cardinality(CreatedFor(u)) - Cardinality(DeletedOf(u))

\* C6: the size of findAll(U) is the number of created and not since deleted
\* records whose userId, as given to create or by the latest update that
\* named a userId, is U; while no update has changed a userId, that is the
\* number of creates made with U minus the number of those since deleted.
C6_FindAllSize ==
    \A u \in Users :
        /\ Len(findAll(expenses, u)) = Cardinality(OwnedBy(u))
        /\ (\A i \in 1..Len(ledger) : ledger[i].owner = ledger[i].createdFor) =>
              Len(findAll(expenses, u))
                  = Cardinality(CreatedFor(u)) - Cardinality(DeletedOf(u))

\* findAll has listed two expenses, one of them handed over by an update
C6_Witness ==
    /\ response.op = "findAll"
    /\ Len(response.body.items) = 2
    /\ \E i \in 1..Len(ledger) : ledger[i].owner # ledger[i].createdFor

Stored(id) == \E k \in 1..Len(expenses) : expenses[k].id = id
IndexOf(id) == CHOOSE k \in 1..Len(expenses) : expenses[k].id = id
Named(field, old) == IF field = None THEN old ELSE field[1]

\* C7: update(id, fields) on a stored expense replaces exactly the fields the
\* partial names in that one record; the record's id (whatever id the partial
\* names), its other fields, its position and every other record stay as they
\* were, and the expense returned is the stored one.
C7_UpdateFrame ==
    [][\A id \in ExpenseIds, partial \in UpdatePartials :
          (UpdateExpense(id, partial) /\ Stored(id)) =>
              LET k == IndexOf(id)
                  old == expenses[k]
              IN  /\ Len(expenses') = Len(expenses)
                  /\ \A j \in 1..Len(expenses) : j # k => expenses'[j] = expenses[j]
                  /\ expenses'[k].id = old.id
                  /\ expenses'[k].amount = Named(partial.amount, old.amount)
                  /\ expenses'[k].description = Named(partial.description, old.description)
                  /\ expenses'[k].category = Named(partial.category, old.category)
                  /\ expenses'[k].date = Named(partial.date, old.date)
                  /\ expenses'[k].userId = Named(partial.userId, old.userId)
                  /\ response' = Returned("update", expenses'[k])]_vars

\* the first of two stored expenses was updated by a partial naming its
\* description and date, and was returned
C7_Witness ==
    /\ response.op = "update"
    /\ response.status = "returned"
    /\ Len(expenses) = 2
    /\ response.body = expenses[1]
    /\ response.body.description = "Lunch"

\* C8: update(id, fields) with an id no stored expense has throws
\* 'Expense not found' to its caller and leaves the store as it was.
C8_UpdateMissing ==
    [][\A id \in ExpenseIds, partial \in UpdatePartials :
          (UpdateExpense(id, partial) /\ ~Stored(id)) =>
              /\ response'.status = "thrown"
              /\ response'.body = [message |-> "Expense not found"]
              /\ expenses' = expenses]_vars

\* an update was refused while an expense is stored and another was deleted
C8_Witness ==
    /\ response.op = "update"
    /\ response.status = "thrown"
    /\ Len(expenses) = 1
    /\ Len(ledger) = 2

\* C9: after delete(id), findById(id) finds nothing; the other records are
\* all kept, in their order; delete raises no error; a delete of an id that
\* is not stored changes nothing, so a second delete(id) changes nothing.
C9_Delete ==
    [][\A id \in ExpenseIds :
          DeleteExpense(id) =>
              /\ response'.status = "returned"
              /\ findById(expenses', id) = None
              /\ \A k \in 1..Len(expenses') : expenses'[k].id # id
              /\ \A k \in 1..Len(expenses) :
                    expenses[k].id # id => \E j \in 1..Len(expenses') : expenses'[j] = expenses[k]
              /\ Len(expenses') = Len(expenses) - Cardinality({k \in 1..Len(expenses) : expenses[k].id = id})
              /\ \A i, j \in 1..Len(expenses') :
                    i < j => IndexOf(expenses'[i].id) < IndexOf(expenses'[j].id)
              /\ ~Stored(id) => expenses' = expenses
              /\ deleteFilter(expenses', id) = expenses']_vars

\* the first of two created expenses was deleted and the second remains
C9_Witness ==
    /\ response.op = "delete"
    /\ Len(ledger) = 2
    /\ ledger[1].deleted
    /\ Len(expenses) = 1
    /\ expenses[1].id = ledger[2].id

\* C10: every stored expense has a non-empty id, no two stored expenses have
\* the same id, and every stored id is one that create generated.
C10_UniqueIds ==
    /\ \A i \in 1..Len(expenses) : expenses[i].id # ""
    /\ \A i, j \in 1..Len(expenses) : i # j => expenses[i].id # expenses[j].id
    /\ \A i \in 1..Len(expenses) : \E k \in 1..Len(ledger) : ledger[k].id = expenses[i].id

\* the second of two stored expenses was updated by a partial naming the
\* first one's id
C10_Witness ==
    /\ response.op = "update"
    /\ response.status = "returned"
    /\ Len(expenses) = 2
    /\ response.body = expenses[2]
    /\ response.body.description = "Lunch"

\* C11 as stated: in every reachable state the amount of every persisted
\* expense is a finite number that is not negative.
C11_AmountsValid ==
    \A k \in 1..Len(expenses) :
        expenses[k].amount.kind = "fin" /\ expenses[k].amount.num >= 0

\* C12: a stored expense's id stays in the store across every create, update,
\* query and summary step; it leaves the store only in a delete call given
\* exactly that id.
C12_NoImplicitDelete ==
    [][\A id \in ExpenseIds :
          (Stored(id) /\ ~(\E k \in 1..Len(expenses') : expenses'[k].id = id))
              => DeleteExpense(id)]_vars

\* the second of two expenses was deleted; the first is still stored after
\* that delete, an update and a summary
C12_Witness ==
    /\ response.op = "getSummary"
    /\ updateCount > 0
    /\ Len(ledger) = 2
    /\ ledger[2].deleted
    /\ Len(expenses) = 1
    /\ expenses[1].id = ledger[1].id

SameKey(a, b) == a.userId = b.userId /\ a.month = b.month /\ a.year = b.year

\* C13: a spending-limit create for an already used (userId, month, year)
\* appends a second record and leaves the earlier ones as they were; the
\* lookup, hence the summary, for a key that already had a limit keeps
\* answering the first-created limit of that key.
C13_FirstLimitWins ==
    [][\A dto \in LimitDtos :
          PostSpendingLimit(dto) =>
              /\ Len(limits') = Len(limits) + 1
              /\ SubSeq(limits', 1, Len(limits)) = limits
              /\ SameKey(limits'[Len(limits')], dto)
              /\ \A i \in 1..Len(limits) :
                    LET first == CHOOSE j \in 1..i :
                                    /\ SameKey(limits[j], limits[i])
                                    /\ \A h \in 1..(j - 1) : ~SameKey(limits[h], limits[i])
                        u == limits[i].userId
                        m == limits[i].month
                        y == limits[i].year
                    IN  /\ findByUserAndMonth(limits', u, m, y) = Some(limits[first])
                        /\ getSpendingSummary(expenses', limits', u, m, y).spendingLimit
                              = limits[first].monthlyLimit]_vars

\* two limits are stored for one key and the summary served the first one's
\* value, which differs from the second's
C13_Witness ==
    /\ Len(limits) = 2
    /\ SameKey(limits[1], limits[2])
    /\ limits[1].monthlyLimit # limits[2].monthlyLimit
    /\ response.op = "getSummary"
    /\ response.body.spendingLimit = limits[1].monthlyLimit

\* C14 as stated: after a POST /spending-limits, the summary for the posted
\* (userId, month, year) reports the posted monthlyLimit as spendingLimit,
\* also when a limit for that key was stored before.
C14_PostUpdatesLimit ==
    response.op = "postSpendingLimit" =>
        SummaryFor(response.body.userId, response.body.month,
                   response.body.year).spendingLimit = response.body.monthlyLimit

\* a query parameter that is absent, empty, or holds a character other than
\* a decimal digit after an optional leading minus sign
NotNumeric(value) ==
    \/ value = None
    \/ value[1] = <<>>
    \/ value[1] = <<"-">>
    \/ \E i \in 1..Len(value[1]) :
          ~(value[1][i] \in {"0", "1", "2", "3", "4", "5", "6", "7", "8", "9"}
            \/ (i = 1 /\ value[1][i] = "-"))

\* C15: a GET /expenses or GET /expenses/summary request whose month or year
\* is not numeric is answered with the client error 400; no use case result
\* is returned for it and neither store, nor any id counter, changes.
C15_NonNumericRejected ==
    [][\A u \in Users, month \in QueryMonths, year \in QueryYears :
          ((NotNumeric(month) \/ NotNumeric(year))
             /\ (GetExpensesRequest(u, month, year) \/ GetSummaryRequest(u, month, year))) =>
              /\ response'.status = "thrown"
              /\ response'.body.statusCode = 400
              /\ UNCHANGED <<expenses, limits, classLimits, uuidCount, ledger>>]_vars

\* a summary request was refused while both stores hold records
C15_Witness ==
    /\ response.op = "getSummary"
    /\ response.status = "thrown"
    /\ Len(expenses) > 0
    /\ Len(limits) > 0

StoresKept ==
    /\ expenses' = expenses
    /\ limits' = limits
    /\ classLimits' = classLimits

\* C16: findAll, findById, findByMonth, findByUserAndMonth and the summary
\* leave the expense store and the limit store as they were, and the same
\* call made again right after returns a result equal to the one returned.
C16_ReadOnly ==
    [][/\ \A u \in Users :
             FindAll(u) =>
                 StoresKept /\ response'.body = [items |-> findAll(expenses', u)]
       /\ \A id \in ExpenseIds :
             FindById(id) =>
                 StoresKept /\ response'.body = [found |-> findById(expenses', id)]
       /\ \A u \in Users, m \in Months, y \in Years :
             /\ GetMonthly(u, m, y) =>
                   StoresKept /\ response'.body = [items |-> findByMonth(expenses', u, m, y)]
             /\ FindByUserAndMonth(u, m, y) =>
                   StoresKept /\ response'.body = [found |-> findByUserAndMonth(limits', u, m, y)]
             /\ GetSummary(u, m, y) =>
                   StoresKept /\ response'.body = getSpendingSummary(expenses', limits', u, m, y)
      ]_vars

\* the limit lookup found a limit while both stores hold two records
C16_Witness ==
    /\ response.op = "findByUserAndMonth"
    /\ response.body.found # None
    /\ Len(expenses) = 2
    /\ Len(limits) = 2

\* the expense store of the run that differs from this one in leaving out the
\* creates for, and the deletes from, users other than userId
TwinExpenses(userId) ==
    LET kept == SelectSeq(ledger, LAMBDA entry : entry.createdFor = userId /\ entry.twin # None)
    IN  [i \in 1..Len(kept) |-> kept[i].twin[1]]

\* the limit store of that run: limits are only ever created
TwinLimits(userId) ==
    SelectSeq(limitsOf(useCaseRepository), LAMBDA limit : limit.userId = userId)

SameForUser(userId) ==
    /\ findAll(TwinExpenses(userId), userId) = findAll(expenses, userId)
    /\ \A m \in Months, y \in Years :
          /\ findByMonth(TwinExpenses(userId), userId, m, y)
                = findByMonth(expenses, userId, m, y)
          /\ getSpendingSummary(TwinExpenses(userId), TwinLimits(userId), userId, m, y)
                = SummaryFor(userId, m, y)

\* C17 as stated: two runs that differ only in the expenses and limits
\* created for, or deleted from, users other than U give the same findAll(U),
\* findByMonth(U, M, Y) and summary for (U, M, Y).
C17_AsStated == \A u \in Users : SameForUser(u)

\* C17: in every state each stored expense is returned by findAll for one
\* user id only, the userId it holds; and as long as no update has changed an
\* expense's userId, two runs that differ only in the expenses and limits
\* created for, or deleted from, users other than U give the same findAll(U),
\* findByMonth(U, M, Y) and summary for (U, M, Y).
C17_NoSharing ==
    /\ \A k \in 1..Len(expenses), u \in Users :
          (\E i \in 1..Len(findAll(expenses, u)) : findAll(expenses, u)[i] = expenses[k])
              <=> u = expenses[k].userId
    /\ (\A i \in 1..Len(ledger) : ledger[i].owner = ledger[i].createdFor)
          => \A u \in Users : SameForUser(u)

\* one user holds an updated expense and a limit while the other user's
\* expense was created and deleted and a limit of the other user is stored
C17_Witness ==
    /\ Len(ledger) = 2
    /\ ledger[1].createdFor # ledger[2].createdFor
    /\ ledger[1].deleted /\ ~ledger[2].deleted
    /\ \A i \in 1..Len(ledger) : ledger[i].owner = ledger[i].createdFor
    /\ updateCount > 0
    /\ Len(expenses) = 1 /\ expenses[1].amount = Num(75)
    /\ Len(limits) = 2 /\ limits[1].userId # limits[2].userId

\* C18: findAll(U) lists exactly the created and not deleted expenses that U
\* holds, each once, in the order of their creation, whatever creates,
\* updates and deletes came before.
C18_CreationOrder ==
    \A u \in Users :
        LET r == findAll(expenses, u)
        IN  /\ {r[i].id : i \in 1..Len(r)} = {ledger[k].id : k \in OwnedBy(u)}
            /\ Len(r) = Cardinality(OwnedBy(u))
            /\ \A i, j \in 1..Len(r) :
                  i < j => ledgerIndex(r[i].id) < ledgerIndex(r[j].id)

\* of three expenses of one user the first was deleted and the second
\* updated; findAll listed the second, then the third
C18_Witness ==
    /\ response.op = "findAll"
    /\ Len(ledger) = 3
    /\ ledger[1].deleted
    /\ Len(response.body.items) = 2
    /\ response.body.items[1].id = ledger[2].id
    /\ response.body.items[1].amount = Num(75)
    /\ response.body.items[2].id = ledger[3].id

\* C19 as stated: every summary returned equals the summary of one state the
\* two stores were in while the request ran, because no other request's
\* mutation takes effect between its read of the expenses and its read of
\* the limit.
C19_SummaryOfOneState ==
    [][\A i \in 1..Len(suspended) :
          GetSummaryAfterLimit(i) => response'.body \in suspended[i].seen]_vars

StoreOf(store) == IF store = "expense" THEN expenses ELSE limits

\* a caller that began to wait after handler i deleted, in the same store, the
\* record handler i wrote
LaterDelete(i) ==
    \E j \in (i + 1)..Len(suspended) :
        /\ suspended[j].op = "write"
        /\ suspended[j].store = suspended[i].store
        /\ suspended[j].method = "delete"
        /\ suspended[j].id = suspended[i].id

\* the record after the updates of it made by the handlers from j on, taken
\* in the order of their calls
RECURSIVE AfterLater(_, _, _)
AfterLater(record, store, j) ==
    IF j > Len(suspended) THEN record
    ELSE LET h == suspended[j]
             hit == /\ h.op = "write"
                    /\ h.store = store
                    /\ h.method = "update"
                    /\ h.id = record.id
         IN  AfterLater(IF ~hit THEN record
                        ELSE IF store = "expense"
                             THEN updatedExpense(<<record>>, 1, record.id, h.partial)
                             ELSE updatedLimit(<<record>>, 1, record.id, h.partial),
                        store, j + 1)

Position(store, id) == CHOOSE k \in 1..Len(StoreOf(store)) : StoreOf(store)[k].id = id

\* C20: with callers of create, update and delete waiting at their awaits in
\* any number, no write is lost: the record a waiting caller created or
\* updated is in its store, changed only by the updates called after it, in
\* their order, unless a delete called after it named its id; a deleted id is
\* not stored; and the records of concurrent creates are all stored, in the
\* order of the calls.
C20_NoLostUpdate ==
    /\ \A i \in 1..Len(suspended) :
          LET h == suspended[i]
              store == StoreOf(h.store)
              held == {k \in 1..Len(store) : store[k].id = h.id}
          IN  h.op = "write" =>
                CASE h.method = "delete" -> held = {}
                  [] h.outcome.status = "thrown" -> TRUE
                  [] LaterDelete(i) -> held = {}
                  [] OTHER ->
                        /\ Cardinality(held) = 1
                        /\ \A k \in held :
                              store[k] = AfterLater(h.outcome.body, h.store, i + 1)
    /\ \A i, j \in 1..Len(suspended) :
          (/\ i < j
           /\ suspended[i].op = "write" /\ suspended[j].op = "write"
           /\ suspended[i].method = "create" /\ suspended[j].method = "create"
           /\ suspended[i].store = suspended[j].store
           /\ ~LaterDelete(i) /\ ~LaterDelete(j))
              => Position(suspended[i].store, suspended[i].id)
                    < Position(suspended[j].store, suspended[j].id)

\* two callers of create wait at their awaits and both their expenses are
\* stored, the first of them as a third caller's update left it
C20_Witness ==
    /\ Len(suspended) = 2
    /\ \A i \in 1..2 : suspended[i].method = "create" /\ suspended[i].store = "expense"
    /\ Len(expenses) = 2
    /\ expenses[1].id = suspended[1].id
    /\ expenses[2].id = suspended[2].id

\* C21: execute(dto) makes one create call on the repository, with the dto as
\* it was given, and returns what that call returned: one id is generated,
\* one record is appended, the returned expense is that record, it carries
\* the dto's amount, description, category, date and userId beside the
\* generated id, and findById of that id gives it back.
C21_CreateReturnsStored ==
    [][\A dto \in ReadDtos :
          CreateExpense(dto) =>
              /\ uuidCount'.expense = uuidCount.expense + 1
              /\ response'.status = "returned"
              /\ expenses' = Append(expenses, response'.body)
              /\ response'.body.id = randomUUID("expense", uuidCount'.expense)
              /\ \A k \in 1..Len(ledger) : ledger[k].id # response'.body.id
              /\ response'.body.amount = dto.amount
              /\ response'.body.description = dto.description
              /\ response'.body.category = dto.category
              /\ response'.body.date = dto.date
              /\ response'.body.userId = dto.userId
              /\ findById(expenses', response'.body.id) = Some(response'.body)]_vars

\* the second expense was created and findById of its id has answered it
C21_Witness ==
    /\ response.op = "findById"
    /\ Len(expenses) = 2
    /\ response.body.found = Some(expenses[2])
    /\ expenses[2].id = randomUUID("expense", 2)
    /\ expenses[2].userId = "user-456"

\* the values of the four inputs
InputsOf(f) == <<f.amount, f.description, f.category, f.date>>

\* a handleSubmit call waits at its await
Pending == \E i \in 1..Len(suspended) : suspended[i].op = "handleSubmit"

\* in this step an onSubmit promise settled and its handleSubmit ran to its end
Settled == Len(suspended') < Len(suspended)

\* C22: the step in which onSubmit resolves leaves amount, description and
\* category empty and the date at today, in the state and on the page; the
\* step in which onSubmit rejects leaves the four values as they were; in
\* every other step the values stay or change by the user's own input.
C22_ResetOnResolve ==
    [][/\ (Settled /\ response'.status = "returned") =>
              /\ InputsOf(formState') = <<<<>>, "", "", today>>
              /\ InputsOf(dom') = <<<<>>, "", "", today>>
       /\ (Settled /\ response'.status = "thrown") =>
              /\ InputsOf(formState') = InputsOf(formState)
              /\ InputsOf(dom') = InputsOf(dom)
       /\ ~Settled =>
              \/ InputsOf(formState') = InputsOf(formState)
              \/ \E value \in FormAmounts : ChangeAmount(value)
              \/ \E value \in FormDescriptions : ChangeDescription(value)
              \/ \E value \in FormCategories : ChangeCategory(value)
              \/ \E value \in FormDates \cup {today} : ChangeDate(value)]_vars

\* a submission made on the first day resolved after midnight: the inputs are
\* empty and the date shows the new day
C22_Witness ==
    /\ response.op = "onSubmit"
    /\ response.status = "returned"
    /\ suspended = <<>>
    /\ today = NextDay
    /\ InputsOf(dom) = <<<<>>, "", "", NextDay>>

\* C23: while a handleSubmit call waits for onSubmit, isSubmitting is true and
\* the button is disabled and reads 'Adding...'; the step in which onSubmit
\* settles, resolved or rejected, leaves isSubmitting false and the button
\* enabled and reading 'Add Expense'.
C23_SubmittingWhilePending ==
    /\ [](Pending => formState.isSubmitting /\ dom.disabled /\ dom.label = "Adding...")
    /\ [][Settled => ~formState'.isSubmitting /\ ~dom'.disabled /\ dom'.label = "Add Expense"]_vars

\* onSubmit rejected: the button is enabled again over inputs that are still
\* filled, so the next submit event is delivered
C23_Witness ==
    /\ response.op = "onSubmit"
    /\ response.status = "thrown"
    /\ suspended = <<>>
    /\ ~formState.isSubmitting
    /\ ~dom.disabled
    /\ RequiredFilled

\* C30: at most one handleSubmit call waits for its onSubmit at any time.
C30_OneSubmissionInFlight ==
    Len(SelectSeq(suspended, LAMBDA handler : handler.op = "handleSubmit")) <= 1

\* a submission is in flight and the form has re-rendered since, after the
\* user changed the date; the button is still disabled
C30_Witness ==
    /\ Len(suspended) = 1
    /\ suspended[1].op = "handleSubmit"
    /\ dom.date # suspended[1].dto.date
    /\ dom.disabled
    /\ RequiredFilled

\* C24: a summary request whose matching limit has monthlyLimit 0 returns and
\* throws nothing; the summary has the total of the month, spendingLimit 0,
\* remainingBudget minus the total, and a percentageUsed that is an infinity
\* or NaN.
C24_ZeroLimitPassesThrough ==
    [][\A userId \in Users, month \in Months, year \in Years :
          LET limit == findByUserAndMonth(limitsOf(useCaseRepository), userId, month, year)
              total == Num(MonthTotal(Len(expenses), userId, month.num, year.num))
          IN  (GetSummary(userId, month, year) /\ limit # None /\ limit[1].monthlyLimit = Num(0))
                  => /\ response'.status = "returned"
                     /\ response'.body.totalSpent = total
                     /\ response'.body.spendingLimit = Num(0)
                     /\ response'.body.remainingBudget = JsNeg(total)
                     /\ response'.body.percentageUsed.kind \in {"inf", "nan"}]_vars

\* a summary over a limit of 0 and an expense of 300 was returned: the budget
\* is -300 and the percentage is Infinity
C24_Witness ==
    /\ response.op = "getSummary"
    /\ response.status = "returned"
    /\ response.body.spendingLimit = Num(0)
    /\ response.body.remainingBudget = Num(-300)
    /\ response.body.percentageUsed = PosInfinity

\* the body an expense of these runs was posted with
PostedAs(expense) == CHOOSE body \in ZoneBodies : body.description = expense.description

\* C26 as stated: GET /expenses for user U, month M and year Y returns a stored
\* expense exactly when the expense is of user U and the date string it was
\* posted with names a day of month M of year Y, whatever the server's time
\* zone.
C26_ReturnedForNamedMonth ==
    [][\A userId \in Users, month \in ZoneMonths, year \in ZoneYears :
          GetMonthly(userId, month, year) =>
              \A k \in 1..Len(expenses) :
                  LET named == PostedAs(expenses[k]).date
                      items == response'.body.items
                  IN  (\E j \in 1..Len(items) : items[j] = expenses[k])
                          <=> /\ expenses[k].userId = userId
                              /\ month = Num(named.m)
                              /\ year = Num(named.y)]_vars

\* the stored limit with this id
LimitIndexOf(id) == CHOOSE k \in 1..Len(limits) : limits[k].id = id

\* C27: an update of a stored record gives each field the value the partial
\* names for it, also when that value is 0 or the empty string, and leaves a
\* field the partial does not name as it was; this holds for the expense
\* repository and for the spending-limit repository.
C27_FalsyValuesApplied ==
    [][/\ \A id \in ExpenseIds, partial \in FalsyPartials :
              (UpdateExpense(id, partial) /\ Stored(id)) =>
                  LET old == expenses[IndexOf(id)]
                      new == expenses'[IndexOf(id)]
                  IN  /\ new.amount = Named(partial.amount, old.amount)
                      /\ new.description = Named(partial.description, old.description)
                      /\ new.category = Named(partial.category, old.category)
                      /\ new.date = old.date
                      /\ new.userId = old.userId
                      /\ response'.body = new
       /\ \A id \in LimitIds, partial \in FalsyLimitPartials :
              (UpdateLimit(id, partial) /\ \E k \in 1..Len(limits) : limits[k].id = id) =>
                  LET old == limits[LimitIndexOf(id)]
                      new == limits'[LimitIndexOf(id)]
                  IN  /\ new.monthlyLimit = Named(partial.monthlyLimit, old.monthlyLimit)
                      /\ new.month = Named(partial.month, old.month)
                      /\ new.year = Named(partial.year, old.year)
                      /\ new.userId = Named(partial.userId, old.userId)
                      /\ response'.body = new]_vars

\* update(id, {amount: 0, description: '', category: ''}) was applied to the
\* second stored expense and findById reads the three falsy values back
C27_Witness ==
    /\ response.op = "findById"
    /\ Len(expenses) = 2
    /\ response.body.found = Some(expenses[2])
    /\ expenses[2].amount = Num(0)
    /\ expenses[2].description = ""
    /\ expenses[2].category = ""
    /\ expenses[1].amount = Num(300)

\* C25 as stated: in the summary App holds, remainingBudget is null exactly
\* when spendingLimit is null, and so is percentageUsed; and the render of
\* SpendingSummary over it throws nothing.
C25_SummaryViewNeverThrows ==
    /\ app.summary # None =>
          /\ (app.summary[1].remainingBudget = null) <=> (app.summary[1].spendingLimit = null)
          /\ (app.summary[1].percentageUsed = null) <=> (app.summary[1].spendingLimit = null)
    /\ SpendingSummaryView(app.summary, app.isLoadingSummary).status = "rendered"

\* in this step handleCreateExpense made the fetch call of a reload of this kind
ReloadStarted(kind) ==
    \E j \in 1..Len(requests') :
        /\ requests'[j].n > issued
        /\ requests'[j].caller = "handleCreateExpense"
        /\ requests'[j].kind = kind

\* in this step the fetch call at position i settled
Gone(i) == \A j \in 1..Len(requests') : requests'[j].n # requests[i].n

\* C28: handleCreateExpense starts the reload of the list only in the step in
\* which its POST /expenses is answered, and the reload of the summary only
\* in the step in which its reload of the list settles, answered or failed;
\* when the POST fails no fetch call is made and the promise given to the
\* form is rejected.
C28_CreateThenReloads ==
    [][/\ ReloadStarted("expenses") =>
              \E i \in 1..Len(requests) :
                  /\ requests[i].kind = "create"
                  /\ requests[i].stage = "answered"
                  /\ Gone(i)
       /\ ReloadStarted("summary") =>
              \E i \in 1..Len(requests) :
                  /\ requests[i].kind = "expenses"
                  /\ requests[i].caller = "handleCreateExpense"
                  /\ Gone(i)
       /\ \A i \in 1..Len(requests) :
              CreateFailed(i) =>
                  /\ issued' = issued
                  /\ \A j \in 1..Len(requests') : requests'[j].caller # "handleCreateExpense"
                  /\ response' = Thrown("handleCreateExpense", "Failed to create expense")]_vars

\* handleCreateExpense has returned after a reload of the list that failed and
\* a reload of the summary that was answered
C28_Witness ==
    /\ response = Returned("handleCreateExpense", [void |-> TRUE])
    /\ Len(expenses) = 1
    /\ shownFrom.reloadedExpenses = 0
    /\ shownFrom.reloadedSummary > 0
    /\ shownFrom.summary = shownFrom.reloadedSummary

\* C29 as stated: when no fetch call is left in flight and handleCreateExpense
\* has had its reload of the list answered, the list App shows is the month's
\* list as the server holds it after the create, new expense included; and
\* likewise the summary, when the reload of the summary was answered.
C29_ShowsTheReloads ==
    requests = <<>> =>
        /\ shownFrom.reloadedExpenses > 0 =>
              app.expenses = jsonExpenses(findByMonth(expenses, FormUserId, AppMonth, AppYear))
        /\ shownFrom.reloadedSummary > 0 =>
              app.summary = Some(jsonSummary(SummaryFor(FormUserId, AppMonth, AppYear)))

====
